---- MODULE Spec2Model ----
(***************************************************************************)
(* AutoPkg recipe resolution, inheritance merge and parent trust           *)
(* verification (Code/autopkg.py), as a state machine over a small file    *)
(* system of recipe documents.                                             *)
(***************************************************************************)
EXTENDS Integers, Sequences, FiniteSets, TLC

VARIABLES
    fs,             \* recipe files on disk: path -> document
    overrideDirs,   \* the caller's override_dirs list
    prefSearchDirs, \* RECIPE_SEARCH_DIRS as stored in the preferences
    search_dirs,    \* the running process's recipe_dirs list object
    procs,          \* processor files on disk: path -> content
    git,            \* what git answers for a file: path -> git state
    recipeRepos,    \* the keys of the RECIPE_REPOS preference
    edits,          \* number of changes made to the disk / preferences so far
    last,           \* the last operation run: [op, key]
    result,         \* what load_recipe returned
    verdict         \* what verify_parent_trust did with that recipe

vars == <<fs, overrideDirs, prefSearchDirs, search_dirs, procs, git, recipeRepos,
          edits, last, result, verdict>>

\* Bound on the number of edits made to the files and preferences.
MaxEdits == 2
\* Bound standing for Python's recursion limit in load_recipe's recursion.
MaxDepth == 4

----------------------------------------------------------------------------
(* Paths.  A path is a sequence of components, a component a sequence of   *)
(* tokens (pieces of a file name), so that Python's str.startswith can be  *)
(* modelled on the rendered string: "/home/ov-old" starts with "/home/ov". *)

None == "None"
Absent == "<absent>"
NoPath == <<>>

IdA == "com.a"
IdB == "com.b"
IdC == "com.c"
IdX == "com.x"

Tilde == <<"~">>
Home == << <<"home">> >>

\* os.path.abspath(os.path.expanduser(p)); every path of the model is
\* absolute once "~" is expanded and has no "." or ".." component.
expanduser(p) == IF Len(p) > 0 /\ p[1] = Tilde THEN Home \o Tail(p) ELSE p
normalized(p) == expanduser(p)

RECURSIVE PathStr(_)
PathStr(p) ==
    IF p = <<>> THEN <<>>
    ELSE (IF p[1] = Tilde THEN Tilde ELSE <<"/">> \o p[1]) \o PathStr(Tail(p))

startswith(s, prefix) ==
    Len(prefix) <= Len(s) /\ SubSeq(s, 1, Len(prefix)) = prefix

dirname(p) == SubSeq(p, 1, Len(p) - 1)
basename(p) == p[Len(p)]

\* p lies in directory d or below it (component-wise; what "inside" means).
Inside(p, d) == Len(d) <= Len(p) /\ SubSeq(p, 1, Len(d)) = d

OvDir == Home \o << <<"ov">> >>
OvDirTilde == << Tilde, <<"ov">> >>
OvOldDir == Home \o << <<"ov", "-old">> >>
RepoDir == << <<"r1">> >>
LocalDir == << <<"loc">> >>

RECIPE_EXTS == <<".recipe", ".recipe.plist", ".recipe.yaml">>
\* The order in which a directory lists its entries.
Bases == <<"A", "B", "C", "D">>

FilePath(dir, base, ext) == dir \o << <<base, ext>> >>

----------------------------------------------------------------------------
(* Lookup keys: a recipe name or identifier (text), or a path to a file.   *)

TextKey(s) == [path |-> NoPath, text |-> s]
PathKey(p) == [path |-> p, text |-> ""]

----------------------------------------------------------------------------
(* Documents.                                                              *)

\* recipe_from_file: the document plus the annotation slots load_recipe
\* fills in.  PARENT_RECIPES <<>> stands for the absent key: load_recipe
\* never stores an empty list and every reader uses recipe.get().
recipe_from_file(path) ==
    fs[path] @@ [RECIPE_PATH |-> NoPath, PARENT_RECIPES |-> <<>>, name |-> TextKey(None)]

isfile(name) == name.path # NoPath /\ name.path \in DOMAIN fs

valid_recipe_dict(d) == d.Process # <<>> \/ d.ParentRecipe # None

valid_recipe_file(path) == valid_recipe_dict(fs[path])

get_identifier(recipe) == recipe.Identifier

\* Dotted-version comparison, the shorter version padded with zeros.
RECURSIVE version_equal_or_greater(_, _)
version_equal_or_greater(a, b) ==
    IF a = <<>> /\ b = <<>> THEN TRUE
    ELSE LET x == IF a = <<>> THEN 0 ELSE Head(a)
             y == IF b = <<>> THEN 0 ELSE Head(b)
         IN IF x # y THEN x > y
            ELSE version_equal_or_greater(IF a = <<>> THEN a ELSE Tail(a),
                                          IF b = <<>> THEN b ELSE Tail(b))

----------------------------------------------------------------------------
(* Recipe Finder.                                                          *)

ExtCandidates(dir, ext) == [i \in 1..Len(Bases) |-> FilePath(dir, Bases[i], ext)]

RECURSIVE DirCandidates(_, _)
DirCandidates(dir, exts) ==
    IF exts = <<>> THEN <<>>
    ELSE ExtCandidates(dir, Head(exts)) \o DirCandidates(dir, Tail(exts))

\* Every file a search of search_dirs can see, in the order it is tried.
RECURSIVE SearchOrder(_)
SearchOrder(dirs) ==
    IF dirs = <<>> THEN <<>>
    ELSE DirCandidates(normalized(Head(dirs)), RECIPE_EXTS) \o SearchOrder(Tail(dirs))

FirstOrNoPath(s) == IF s = <<>> THEN NoPath ELSE s[1]

find_recipe_by_identifier(identifier, search_dirs_) ==
    FirstOrNoPath(SelectSeq(SearchOrder(search_dirs_),
        LAMBDA p : p \in DOMAIN fs /\ valid_recipe_file(p)
                   /\ get_identifier(fs[p]) # None
                   /\ get_identifier(fs[p]) = identifier))

find_recipe_by_name(name, search_dirs_) ==
    FirstOrNoPath(SelectSeq(SearchOrder(search_dirs_),
        LAMBDA p : p \in DOMAIN fs /\ basename(p)[1] = name /\ valid_recipe_file(p)))

find_recipe_name_first(id_or_name, search_dirs_) ==
    LET byname == find_recipe_by_name(id_or_name, search_dirs_)
    IN IF byname # NoPath THEN byname
       ELSE find_recipe_by_identifier(id_or_name, search_dirs_)

find_recipe(id_or_name, search_dirs_) ==
    LET byid == find_recipe_by_identifier(id_or_name, search_dirs_)
    IN IF byid # NoPath THEN byid ELSE find_recipe_by_name(id_or_name, search_dirs_)

\* locate_recipe without the remote search (search_github false or declined).
locate_recipe(name, override_dirs, recipe_dirs) ==
    IF isfile(name) /\ valid_recipe_file(name.path) THEN name.path
    ELSE IF name.path # NoPath THEN NoPath
    ELSE find_recipe(name.text, override_dirs \o recipe_dirs)

recipe_in_override_dir(recipe_path, override_dirs) ==
    \E i \in 1..Len(override_dirs) :
        startswith(PathStr(normalized(recipe_path)), PathStr(normalized(override_dirs[i])))

----------------------------------------------------------------------------
(* Recipe Loader.                                                          *)

\* Bind(x, F) is F(x) with x evaluated once.
Bind(x, F(_)) == CHOOSE y \in {F(v) : v \in {x}} : TRUE

NoRecipe == <<>>
Ret(recipe, dirs, status) == [recipe |-> recipe, dirs |-> dirs, status |-> status]

get_identifier_from_override(override) == override.ParentRecipe

Truthy(opt) == opt # <<>> /\ DOMAIN opt[1] # {}

DefaultVersion(v) == IF v = <<>> THEN <<0>> ELSE v

\* line 388: the child's identifier replaces the parent's.
MergedIdentifierKeepParent(recipe, child_recipe) == get_identifier(recipe)
MergedIdentifier(recipe, child_recipe) == get_identifier(child_recipe)

\* lines 389-391: child_recipe.get("Description", recipe.get("Description", "")).
MergedDescriptionSkipEmpty(recipe, child_recipe) ==
    IF child_recipe.Description \notin {Absent, ""}
    THEN child_recipe.Description
    ELSE IF recipe.Description # Absent THEN recipe.Description ELSE ""
MergedDescription(recipe, child_recipe) ==
    IF child_recipe.Description # Absent
    THEN child_recipe.Description
    ELSE IF recipe.Description # Absent THEN recipe.Description ELSE ""

\* lines 392-393: every key of the child's Input is written over the parent's.
MergedInputParentWins(recipe, child_recipe) ==
    [k \in DOMAIN recipe.Input \cup DOMAIN child_recipe.Input |->
        IF k \in DOMAIN recipe.Input THEN recipe.Input[k] ELSE child_recipe.Input[k]]
MergedInput(recipe, child_recipe) ==
    [k \in DOMAIN recipe.Input \cup DOMAIN child_recipe.Input |->
        IF k \in DOMAIN child_recipe.Input THEN child_recipe.Input[k] ELSE recipe.Input[k]]

\* lines 395-402: a missing MinimumVersion is "0"; the child's is taken when
\* it is equal or greater.
MergedMinimumVersionChildWins(recipe, child_recipe) ==
    DefaultVersion(child_recipe.MinimumVersion)
MergedMinimumVersion(recipe, child_recipe) ==
    IF version_equal_or_greater(DefaultVersion(child_recipe.MinimumVersion),
                                DefaultVersion(recipe.MinimumVersion))
    THEN DefaultVersion(child_recipe.MinimumVersion)
    ELSE DefaultVersion(recipe.MinimumVersion)

\* line 404: recipe["Process"].extend(child_recipe.get("Process", [])).
MergedProcessChildFirst(recipe, child_recipe) ==
    << (IF child_recipe.Process = <<>> THEN <<>> ELSE child_recipe.Process[1])
       \o recipe.Process[1] >>
MergedProcess(recipe, child_recipe) ==
    << recipe.Process[1] \o
       (IF child_recipe.Process = <<>> THEN <<>> ELSE child_recipe.Process[1]) >>

\* lines 405-410: the parent's path goes in front of the parent's own list.
MergedParentRecipesAppended(recipe) == recipe.PARENT_RECIPES \o <<recipe.RECIPE_PATH>>
MergedParentRecipes(recipe) == <<recipe.RECIPE_PATH>> \o recipe.PARENT_RECIPES

\* lines 386-411: the child merged into its loaded parent.
MergeChild(recipe, child_recipe, recipe_file) ==
    [recipe EXCEPT
        !.Identifier = MergedIdentifier(recipe, child_recipe),
        !.Description = MergedDescription(recipe, child_recipe),
        !.Input = MergedInput(recipe, child_recipe),
        !.MinimumVersion = MergedMinimumVersion(recipe, child_recipe),
        !.Process = MergedProcess(recipe, child_recipe),
        !.PARENT_RECIPES = MergedParentRecipes(recipe),
        !.RECIPE_PATH = recipe_file]

\* lines 418-428: re-attach the override's trust info or strip an inherited one.
ReattachTrustKeepMergedParent(recipe, parent_trust_info, override_parent) ==
    IF Truthy(parent_trust_info)
    THEN [recipe EXCEPT !.ParentRecipeTrustInfo = parent_trust_info]
    ELSE [recipe EXCEPT !.ParentRecipeTrustInfo = <<>>]
ReattachTrust(recipe, parent_trust_info, override_parent) ==
    IF Truthy(parent_trust_info)
    THEN [recipe EXCEPT
            !.ParentRecipeTrustInfo = parent_trust_info,
            !.ParentRecipe = IF override_parent # None
                             THEN override_parent ELSE recipe.ParentRecipe]
    ELSE [recipe EXCEPT !.ParentRecipeTrustInfo = <<>>]

Steps(names) == names

FinishPostFirst(recipe, name, preprocessors, postprocessors) ==
    [recipe EXCEPT
        !.name = name,
        !.Process = << Steps(postprocessors) \o recipe.Process[1] \o Steps(preprocessors) >>]

\* lines 430-447: the name annotation and the pre/postprocessor steps.
Finish(recipe, name, preprocessors, postprocessors) ==
    [recipe EXCEPT
        !.name = name,
        !.Process = IF preprocessors = <<>> /\ postprocessors = <<>>
                    THEN recipe.Process
                    ELSE << Steps(preprocessors) \o recipe.Process[1]
                            \o Steps(postprocessors) >>]

\* lines 386-428 and 430-447, once the parent has been loaded (or not).
AfterParentKeepChild(sub, doc, recipe_file, name, override_dirs, preprocessors, postprocessors) ==
    IF sub.status # "ok" THEN sub
    ELSE IF sub.recipe = NoRecipe
    THEN Ret(<< Finish([doc EXCEPT !.RECIPE_PATH = recipe_file],
                       name, preprocessors, postprocessors) >>, sub.dirs, "ok")
    ELSE IF sub.recipe[1].Process = <<>> THEN Ret(NoRecipe, sub.dirs, "KeyError")
    ELSE Ret(<< Finish(ReattachTrust(MergeChild(sub.recipe[1], doc, recipe_file),
                                     IF recipe_in_override_dir(recipe_file, override_dirs)
                                     THEN doc.ParentRecipeTrustInfo ELSE <<>>,
                                     IF recipe_in_override_dir(recipe_file, override_dirs)
                                     THEN doc.ParentRecipe ELSE None),
                       name, preprocessors, postprocessors) >>,
             sub.dirs, "ok")
AfterParent(sub, doc, recipe_file, name, override_dirs, preprocessors, postprocessors) ==
    LET in_override == recipe_in_override_dir(recipe_file, override_dirs)
        parent_trust_info == IF in_override THEN doc.ParentRecipeTrustInfo ELSE <<>>
        override_parent == IF in_override THEN doc.ParentRecipe ELSE None
    IN
    IF sub.status # "ok" THEN sub
    ELSE IF sub.recipe = NoRecipe THEN Ret(NoRecipe, sub.dirs, "ok")
    ELSE IF sub.recipe[1].Process = <<>> THEN Ret(NoRecipe, sub.dirs, "KeyError")
    ELSE Ret(<< Finish(ReattachTrust(MergeChild(sub.recipe[1], doc, recipe_file),
                                     parent_trust_info, override_parent),
                       name, preprocessors, postprocessors) >>,
             sub.dirs, "ok")

\* lines 416-447 for a recipe that names no parent.
NoParent(doc, recipe_file, name, override_dirs, recipe_dirs, preprocessors, postprocessors) ==
    LET in_override == recipe_in_override_dir(recipe_file, override_dirs)
        parent_trust_info == IF in_override THEN doc.ParentRecipeTrustInfo ELSE <<>>
        override_parent == IF in_override THEN doc.ParentRecipe ELSE None
    IN
    IF (preprocessors # <<>> \/ postprocessors # <<>>) /\ doc.Process = <<>>
    THEN Ret(NoRecipe, recipe_dirs, "KeyError")
    ELSE Ret(<< Finish(ReattachTrust([doc EXCEPT !.RECIPE_PATH = recipe_file],
                                     parent_trust_info, override_parent),
                       name, preprocessors, postprocessors) >>,
             recipe_dirs, "ok")

\* lines 378-380: the parent is loaded with no override directories.
ParentOverrideDirsKept(override_dirs) == override_dirs
ParentOverrideDirs(override_dirs) == <<>>

\* load_recipe returns [recipe, dirs, status]: the recipe (<<>> for None),
\* the caller's recipe_dirs list as the call leaves it (line 376 appends to
\* it), and "ok" or the exception raised.  depth counts down the recursion
\* depth that is left.
RECURSIVE load_recipe(_, _, _, _, _, _)
load_recipe(name, override_dirs, recipe_dirs, preprocessors, postprocessors, depth) ==
    Bind(locate_recipe(name, override_dirs, recipe_dirs), LAMBDA recipe_file :
      IF recipe_file = NoPath THEN Ret(NoRecipe, recipe_dirs, "ok")
      ELSE
        Bind(recipe_from_file(recipe_file), LAMBDA doc :
          IF doc.ParentRecipe = None
          THEN NoParent(doc, recipe_file, name, override_dirs, recipe_dirs,
                        preprocessors, postprocessors)
          ELSE IF depth = 0
          THEN Ret(NoRecipe, Append(recipe_dirs, dirname(recipe_file)), "RecursionError")
          ELSE
            Bind(load_recipe(TextKey(get_identifier_from_override(doc)),
                             ParentOverrideDirs(override_dirs),
                             Append(recipe_dirs, dirname(recipe_file)),
                             <<>>, <<>>, depth - 1),
                 LAMBDA sub :
                   AfterParent(sub, doc, recipe_file, name, override_dirs,
                               preprocessors, postprocessors))))

----------------------------------------------------------------------------
(* Trust Model: hashing, VCS lookups and processor lookup.                 *)

\* sha256 digests, as an injective function of the bytes hashed.
ShaDoc(d) == [doc |-> <<d>>, proc |-> 0, err |-> ""]
ShaProc(c) == [doc |-> <<>>, proc |-> c, err |-> ""]
ShaErr(s) == [doc |-> <<>>, proc |-> 0, err |-> s]

getsha256hash(filepath) ==
    IF filepath \in DOMAIN fs THEN ShaDoc(fs[filepath])
    ELSE IF filepath \in DOMAIN procs THEN ShaProc(procs[filepath])
    ELSE ShaErr("NOT A FILE")

\* What git knows of a file: whether rev-parse --show-toplevel succeeds,
\* what rev-list -1 prints (or GitError), and the digest of the file as that
\* commit has it (none when diff fails).
GitError == "GitError"
NoGit == [toplevel |-> FALSE, rev |-> GitError, base |-> <<>>]
Committed(h, sha) == [toplevel |-> TRUE, rev |-> h, base |-> <<sha>>]
GitOf(filepath) == IF filepath \in DOMAIN git THEN git[filepath] ELSE NoGit

\* git diff <commit> <file>: empty when the file is as the commit has it.
git_diff(filepath, g) ==
    IF g.base = <<>> THEN GitError
    ELSE IF getsha256hash(filepath) = g.base[1] THEN "" ELSE "changed"

get_git_commit_hash_ignoring_diff(filepath) ==
    IF ~GitOf(filepath).toplevel THEN None ELSE GitOf(filepath).rev

get_git_commit_hash(filepath) ==
    LET g == GitOf(filepath)
        diff_output == git_diff(filepath, g)
    IN
    IF ~g.toplevel THEN None
    ELSE IF g.rev = GitError THEN None
    ELSE IF diff_output = GitError THEN None
    ELSE IF diff_output # "" THEN None
    ELSE g.rev

relpath(p, start) ==
    IF Inside(p, start) THEN SubSeq(p, Len(start) + 1, Len(p))
    ELSE [i \in 1..Len(start) |-> <<"..">>] \o p

os_path_compressuser(pathname) ==
    IF pathname = Home THEN <<Tilde>>
    ELSE IF startswith(PathStr(pathname), PathStr(Home))
         THEN <<Tilde>> \o relpath(pathname, Home)
         ELSE pathname

ProcPath(dir, processor_name) == dir \o << <<processor_name, ".py">> >>

RECURSIVE Dirnames(_)
Dirnames(paths) ==
    IF paths = <<>> THEN <<>> ELSE <<dirname(Head(paths))>> \o Dirnames(Tail(paths))

\* The parent directories are collected in a set before they are searched, so
\* the order among them is not fixed: every directory of the set that holds
\* the file can be the one that is returned.  Processor names of the model
\* carry no recipe identifier, so no shared-processor directory is added.
find_processor_paths(processor_name, recipe) ==
    LET recipe_dir == dirname(recipe.RECIPE_PATH)
        dirs == Dirnames(recipe.PARENT_RECIPES)
        parent_recipe_dirs == {dirs[i] : i \in 1..Len(dirs)}
        hits == {d \in parent_recipe_dirs : ProcPath(d, processor_name) \in DOMAIN procs}
    IN IF ProcPath(recipe_dir, processor_name) \in DOMAIN procs
          THEN {ProcPath(recipe_dir, processor_name)}
          ELSE IF hits = {} THEN {NoPath}
                            ELSE {ProcPath(d, processor_name) : d \in hits}

\* One outcome of the search; it is the only one whenever at most one parent
\* directory holds the file.
find_processor_path(processor_name, recipe) ==
    CHOOSE p \in find_processor_paths(processor_name, recipe) : TRUE

core_processor_names == {"URLDownloader", "EndOfCheckPhase"}

\* One entry of a trust record; git_hash None stands for the absent key.
TrustEntry(path, sha, git_hash) ==
    [path |-> os_path_compressuser(path), sha256_hash |-> sha, git_hash |-> git_hash]

Put(f, k, v) == [x \in DOMAIN f \cup {k} |-> IF x = k THEN v ELSE f[x]]
EmptyDict == [k \in {} |-> 0]

\* get_trust_info lines 1399-1411; the loads append to search_dirs.
RECURSIVE ParentRecipeHashes(_, _, _)
ParentRecipeHashes(paths, dirs, acc) ==
    IF paths = <<>> THEN [hashes |-> acc, dirs |-> dirs, status |-> "ok"]
    ELSE
      Bind(load_recipe(PathKey(Head(paths)), <<>>, dirs, <<>>, <<>>, MaxDepth),
           LAMBDA lr :
             LET p_recipe_path == Head(paths)
                 identifier == IF lr.recipe = NoRecipe THEN None
                               ELSE get_identifier(lr.recipe[1])
                 entry == TrustEntry(p_recipe_path, getsha256hash(p_recipe_path),
                                     get_git_commit_hash(p_recipe_path))
             IN IF lr.status # "ok"
                THEN [hashes |-> acc, dirs |-> lr.dirs, status |-> lr.status]
                ELSE ParentRecipeHashes(Tail(paths), lr.dirs,
                                        Put(acc, identifier, entry)))

\* get_trust_info lines 1412-1434.
RECURSIVE ProcessorHashes(_, _, _)
ProcessorHashes(processors, recipe, acc) ==
    IF processors = <<>> THEN acc
    ELSE
      LET processor == Head(processors)
          processor_path == find_processor_path(processor, recipe)
          entry == IF processor_path # NoPath
                   THEN TrustEntry(processor_path, getsha256hash(processor_path),
                                   get_git_commit_hash(processor_path))
                   ELSE [path |-> NoPath,
                         sha256_hash |-> ShaErr("PROCESSOR FILEPATH NOT FOUND"),
                         git_hash |-> None]
      IN ProcessorHashes(Tail(processors), recipe, Put(acc, processor, entry))

get_trust_info_without_self(recipe, search_dirs_) ==
    Bind(ParentRecipeHashes(recipe.PARENT_RECIPES, search_dirs_, EmptyDict),
         LAMBDA ph :
           [info |-> [non_core_processors |->
                        ProcessorHashes(
                          SelectSeq(recipe.Process[1],
                                    LAMBDA x : x \notin core_processor_names),
                          recipe, EmptyDict),
                      parent_recipes |-> ph.hashes],
            dirs |-> ph.dirs,
            status |-> ph.status])

get_trust_info(recipe, search_dirs_) ==
    Bind(ParentRecipeHashes(recipe.PARENT_RECIPES \o <<recipe.RECIPE_PATH>>,
                            search_dirs_, EmptyDict),
         LAMBDA ph :
           [info |-> [non_core_processors |->
                        ProcessorHashes(
                          SelectSeq(recipe.Process[1],
                                    LAMBDA x : x \notin core_processor_names),
                          recipe, EmptyDict),
                      parent_recipes |-> ph.hashes],
            dirs |-> ph.dirs,
            status |-> ph.status])

recipe_from_external_repo_never(recipe_path) == FALSE
recipe_from_external_repo(recipe_path) ==
    \E repo \in recipeRepos : startswith(PathStr(recipe_path), PathStr(repo))

----------------------------------------------------------------------------
(* Trust Model: verification.                                              *)

Msg(msg, name) == [msg |-> msg, name |-> name]

\* The order in which the keys of a trust record are walked.
NameOrder == <<IdA, IdB, IdC, IdX, "A", "B", "C", None,
               "PA", "PB", "PX">>
KeysInOrder(d) == SelectSeq(NameOrder, LAMBDA k : k \in DOMAIN d)

Verdict(outcome, errors, actual, dirs) ==
    [outcome |-> outcome, errors |-> errors, actual |-> actual, dirs |-> dirs]

\* lines 1575-1608: the processors of the two records compared.
ProcessorErrorsWholeEntry(expected, actual, recipe) ==
    { Msg(IF find_processor_path(p, recipe) # NoPath
          THEN "Processor contents differ from expected"
          ELSE "Expected processor can't be found", p) :
        p \in { q \in DOMAIN expected.non_core_processors :
                  \/ q \notin DOMAIN actual.non_core_processors
                  \/ actual.non_core_processors[q] # expected.non_core_processors[q] } }
    \cup
    { Msg("Unexpected processor found", p) :
        p \in DOMAIN actual.non_core_processors \ DOMAIN expected.non_core_processors }
ProcessorErrorsAllExpected(expected, actual, recipe) ==
    { Msg(IF find_processor_path(p, recipe) # NoPath
          THEN "Processor contents differ from expected"
          ELSE "Expected processor can't be found", p) :
        p \in DOMAIN expected.non_core_processors }
    \cup
    { Msg("Unexpected processor found", p) :
        p \in DOMAIN actual.non_core_processors \ DOMAIN expected.non_core_processors }
ProcessorErrors(expected, actual, recipe) ==
    { Msg(IF find_processor_path(p, recipe) # NoPath
          THEN "Processor contents differ from expected"
          ELSE "Expected processor can't be found", p) :
        p \in { q \in DOMAIN expected.non_core_processors :
                  \/ q \notin DOMAIN actual.non_core_processors
                  \/ actual.non_core_processors[q].sha256_hash
                       # expected.non_core_processors[q].sha256_hash } }
    \cup
    { Msg("Unexpected processor found", p) :
        p \in DOMAIN actual.non_core_processors \ DOMAIN expected.non_core_processors }

\* A line of the error body that prints a list of identifiers.
ListMsg(msg, list) == [msg |-> msg, name |-> "", list |-> list]

\* lines 1611-1615; both lines print expected_parent_recipes.
ParentListErrors(expected, actual) ==
    IF DOMAIN expected.parent_recipes # DOMAIN actual.parent_recipes
    THEN {ListMsg("Expected parent recipe list", KeysInOrder(expected.parent_recipes)),
          ListMsg("Actual parent recipe list", KeysInOrder(expected.parent_recipes))}
    ELSE {}

\* lines 1616-1648: each expected parent whose hash differs is loaded again.
RECURSIVE ExpectedParentErrors(_, _, _, _, _, _)
ExpectedParentErrors(ids, expected, actual, override_dirs, dirs, errs) ==
    IF ids = <<>> THEN [errors |-> errs, dirs |-> dirs, status |-> "ok"]
    ELSE IF /\ Head(ids) \in DOMAIN actual.parent_recipes
            /\ actual.parent_recipes[Head(ids)].sha256_hash
                 = expected.parent_recipes[Head(ids)].sha256_hash
    THEN ExpectedParentErrors(Tail(ids), expected, actual, override_dirs, dirs, errs)
    ELSE
      Bind(load_recipe(TextKey(Head(ids)), override_dirs, dirs, <<>>, <<>>, MaxDepth),
           LAMBDA lr :
             IF lr.status # "ok"
             THEN [errors |-> errs, dirs |-> lr.dirs, status |-> lr.status]
             ELSE ExpectedParentErrors(Tail(ids), expected, actual, override_dirs,
                    lr.dirs,
                    errs \cup {Msg(IF lr.recipe # NoRecipe
                                   THEN "Parent recipe contents differ from expected"
                                   ELSE "Expected parent recipe can't be found",
                                   Head(ids))}))

\* lines 1649-1660.
RECURSIVE UnexpectedParentErrors(_, _, _, _, _)
UnexpectedParentErrors(ids, expected, override_dirs, dirs, errs) ==
    IF ids = <<>> THEN [errors |-> errs, dirs |-> dirs, status |-> "ok"]
    ELSE IF Head(ids) \in DOMAIN expected.parent_recipes
    THEN UnexpectedParentErrors(Tail(ids), expected, override_dirs, dirs, errs)
    ELSE
      Bind(load_recipe(TextKey(Head(ids)), override_dirs, dirs, <<>>, <<>>, MaxDepth),
           LAMBDA lr :
             IF lr.status # "ok"
             THEN [errors |-> errs, dirs |-> lr.dirs, status |-> lr.status]
             ELSE UnexpectedParentErrors(Tail(ids), expected, override_dirs, lr.dirs,
                    errs \cup {Msg("Unexpected parent recipe found", Head(ids))}))

\* lines 1572-1663: the differences between the two records.
TrustDifferences(recipe, expected, actual, override_dirs, dirs) ==
    Bind(ExpectedParentErrors(KeysInOrder(expected.parent_recipes), expected, actual,
                              override_dirs, dirs,
                              ProcessorErrors(expected, actual, recipe)
                                \cup ParentListErrors(expected, actual)),
         LAMBDA r2 :
           IF r2.status # "ok" THEN Verdict(r2.status, r2.errors, <<actual>>, r2.dirs)
           ELSE
             Bind(UnexpectedParentErrors(KeysInOrder(actual.parent_recipes), expected,
                                         override_dirs, r2.dirs, r2.errors),
                  LAMBDA r3 :
                    IF r3.status # "ok"
                    THEN Verdict(r3.status, r3.errors, <<actual>>, r3.dirs)
                    ELSE IF r3.errors # {}
                    THEN Verdict("TrustVerificationError", r3.errors, <<actual>>, r3.dirs)
                    ELSE Verdict("ok", {}, <<actual>>, r3.dirs)))

\* lines 1567-1571 and on: the expected and the actual record compared.
CompareTrust(recipe, expected_trust_info, ti, override_dirs) ==
    IF ti.status # "ok" THEN Verdict(ti.status, {}, <<>>, ti.dirs)
    ELSE IF ti.info = expected_trust_info
    THEN Verdict("ok", {}, <<ti.info>>, ti.dirs)
    ELSE TrustDifferences(recipe, expected_trust_info, ti.info, override_dirs, ti.dirs)

verify_parent_trust(recipe, override_dirs, search_dirs_) ==
    LET trust == recipe.ParentRecipeTrustInfo IN
    IF Truthy(trust) /\ ~recipe_in_override_dir(recipe.RECIPE_PATH, override_dirs)
    THEN Verdict("TrustVerificationWarning",
                 {Msg("Trust information in non-override recipe.", "")}, <<>>, search_dirs_)
    ELSE IF ~Truthy(trust)
    THEN Verdict("TrustVerificationWarning",
                 {Msg("No trust information present.", "")}, <<>>, search_dirs_)
    ELSE IF recipe_from_external_repo(recipe.RECIPE_PATH)
    THEN Verdict("TrustVerificationError",
                 {Msg("Recipe from external repo: embedded trust info will be ignored.", "")},
                 <<>>, search_dirs_)
    ELSE IF recipe.ParentRecipe = None
    THEN Verdict("KeyError", {}, <<>>, search_dirs_)
    ELSE
      Bind(load_recipe(TextKey(recipe.ParentRecipe), override_dirs, search_dirs_,
                       <<>>, <<>>, MaxDepth),
           LAMBDA pl :
             IF pl.status # "ok" THEN Verdict(pl.status, {}, <<>>, pl.dirs)
             ELSE IF pl.recipe = NoRecipe THEN Verdict("AttributeError", {}, <<>>, pl.dirs)
             ELSE Bind(get_trust_info(pl.recipe[1], pl.dirs),
                       LAMBDA ti : CompareTrust(recipe, trust[1], ti, override_dirs)))

----------------------------------------------------------------------------
(* The files and preferences the runs start from.                          *)

PathA == FilePath(RepoDir, "A", ".recipe")
PathB == FilePath(RepoDir, "B", ".recipe")
PathC == FilePath(OvDir, "C", ".recipe")

NoInput == [k \in {} |-> ""]

DocA == [Identifier |-> IdA, ParentRecipe |-> None, Description |-> "dA",
         MinimumVersion |-> <<1, 0>>, Input |-> [NAME |-> "a", URL |-> "a"],
         Process |-> << <<"URLDownloader", "PA">> >>, ParentRecipeTrustInfo |-> <<>>]
DocB == [Identifier |-> IdB, ParentRecipe |-> IdA, Description |-> "dB",
         MinimumVersion |-> <<>>, Input |-> [NAME |-> "b"],
         Process |-> << <<"PB">> >>, ParentRecipeTrustInfo |-> <<>>]

\* The trust record of the chain B -> A as the files are at the start.
BaseTrust ==
    [non_core_processors |->
        ("PA" :> TrustEntry(ProcPath(RepoDir, "PA"), ShaProc(1), "g1"))
        @@ ("PB" :> TrustEntry(ProcPath(RepoDir, "PB"), ShaProc(1), "g1")),
     parent_recipes |->
        (IdA :> TrustEntry(PathA, ShaDoc(DocA), "g1"))
        @@ (IdB :> TrustEntry(PathB, ShaDoc(DocB), "g1"))]

DocC == [Identifier |-> IdC, ParentRecipe |-> IdB, Description |-> Absent,
         MinimumVersion |-> <<>>, Input |-> NoInput,
         Process |-> <<>>, ParentRecipeTrustInfo |-> <<BaseTrust>>]

NoOp == [op |-> "none", key |-> TextKey(None)]
NoResult == Ret(NoRecipe, <<>>, "none")
NoVerdict == Verdict("none", {}, <<>>, <<>>)

Init ==
    /\ fs = (PathA :> DocA) @@ (PathB :> DocB) @@ (PathC :> DocC)
    /\ procs = (ProcPath(RepoDir, "PA") :> 1) @@ (ProcPath(RepoDir, "PB") :> 1)
    /\ git = (PathA :> Committed("g1", ShaDoc(DocA)))
             @@ (PathB :> Committed("g1", ShaDoc(DocB)))
             @@ (ProcPath(RepoDir, "PA") :> Committed("g1", ShaProc(1)))
             @@ (ProcPath(RepoDir, "PB") :> Committed("g1", ShaProc(1)))
    /\ recipeRepos = {RepoDir}
    /\ overrideDirs = <<OvDirTilde>>
    /\ prefSearchDirs = <<RepoDir, OvOldDir, LocalDir>>
    /\ search_dirs = prefSearchDirs
    /\ edits = 0
    /\ last = NoOp
    /\ result = NoResult
    /\ verdict = NoVerdict

----------------------------------------------------------------------------
(* Changes to the disk and the preferences between runs.  Each ends the    *)
(* running process: the next run starts from the stored preferences.       *)

NewRun ==
    /\ last' = NoOp
    /\ result' = NoResult
    /\ verdict' = NoVerdict
    /\ search_dirs' = prefSearchDirs

WriteDoc(p, d) ==
    /\ edits < MaxEdits
    /\ fs[p] # d
    /\ fs' = [fs EXCEPT ![p] = d]
    /\ edits' = edits + 1
    /\ UNCHANGED <<overrideDirs, prefSearchDirs, procs, git, recipeRepos>>
    /\ NewRun

\* A second trust record, naming A alone, for files that embed another one.
OtherTrust ==
    [non_core_processors |->
        ("PA" :> TrustEntry(ProcPath(RepoDir, "PA"), ShaProc(1), "g1")),
     parent_recipes |-> (IdA :> TrustEntry(PathA, ShaDoc(DocA), "g1"))]

Descriptions == {Absent, "", "dX"}
Versions == {<<>>, <<2, 3>>, <<3, 0>>}
InputKeys == {"NAME", "URL"}
Processes == {<<>>, << <<"URLDownloader", "PA">> >>}
TrustInfos == {<<>>, <<EmptyDict>>, <<OtherTrust>>}
Identifiers == {None, IdX}
ParentRefs == {None, IdA}
FileDirs == {OvDir, OvOldDir, LocalDir, RepoDir}
OverrideDirChoices == {<<>>, <<OvDirTilde>>, <<OvDir, RepoDir>>}
GitStates(p) == {NoGit, Committed("g2", getsha256hash(p))}

EditDescription ==
    \E p \in DOMAIN fs, v \in Descriptions : WriteDoc(p, [fs[p] EXCEPT !.Description = v])

EditMinimumVersion ==
    \E p \in DOMAIN fs, v \in Versions : WriteDoc(p, [fs[p] EXCEPT !.MinimumVersion = v])

EditInput ==
    \E p \in DOMAIN fs, k \in InputKeys :
        WriteDoc(p, [fs[p] EXCEPT !.Input =
            IF k \in DOMAIN fs[p].Input
            THEN [x \in DOMAIN fs[p].Input \ {k} |-> fs[p].Input[x]]
            ELSE Put(fs[p].Input, k, "x")])

EditProcess ==
    \E p \in DOMAIN fs, v \in Processes : WriteDoc(p, [fs[p] EXCEPT !.Process = v])

EditTrust ==
    \E p \in DOMAIN fs, v \in TrustInfos :
        WriteDoc(p, [fs[p] EXCEPT !.ParentRecipeTrustInfo = v])

EditIdentifier ==
    \E p \in DOMAIN fs, v \in Identifiers : WriteDoc(p, [fs[p] EXCEPT !.Identifier = v])

EditParent ==
    \E p \in DOMAIN fs, v \in ParentRefs : WriteDoc(p, [fs[p] EXCEPT !.ParentRecipe = v])

MoveFile ==
    /\ edits < MaxEdits
    /\ \E p \in DOMAIN fs, d \in FileDirs :
         LET q == d \o <<basename(p)>> IN
         /\ q \notin DOMAIN fs
         /\ fs' = [x \in (DOMAIN fs \ {p}) \cup {q} |-> IF x = q THEN fs[p] ELSE fs[x]]
    /\ edits' = edits + 1
    /\ UNCHANGED <<overrideDirs, prefSearchDirs, procs, git, recipeRepos>>
    /\ NewRun

SetOverrideDirs ==
    /\ edits < MaxEdits
    /\ \E v \in OverrideDirChoices : v # overrideDirs /\ overrideDirs' = v
    /\ edits' = edits + 1
    /\ UNCHANGED <<fs, prefSearchDirs, procs, git, recipeRepos>>
    /\ NewRun

GitChange ==
    /\ edits < MaxEdits
    /\ \E p \in DOMAIN git : \E g \in GitStates(p) : git[p] # g /\ git' = [git EXCEPT ![p] = g]
    /\ edits' = edits + 1
    /\ UNCHANGED <<fs, overrideDirs, prefSearchDirs, procs, recipeRepos>>
    /\ NewRun

EditProcessor ==
    /\ edits < MaxEdits
    /\ \E p \in DOMAIN procs :
         \/ procs' = [procs EXCEPT ![p] = 3 - procs[p]]
         \/ procs' = [x \in DOMAIN procs \ {p} |-> procs[x]]
    /\ edits' = edits + 1
    /\ UNCHANGED <<fs, overrideDirs, prefSearchDirs, git, recipeRepos>>
    /\ NewRun

----------------------------------------------------------------------------
(* The program's operations.                                               *)

Keys == {TextKey("C"), TextKey(IdB), PathKey(PathC)}

\* One run: load_recipe(key, override_dirs, search_dirs) in a fresh process.
LoadRecipe ==
    /\ last.op = "none"
    /\ \E key \in Keys :
         \E r \in {load_recipe(key, overrideDirs, prefSearchDirs, <<>>, <<>>, MaxDepth)} :
            /\ result' = r
            /\ search_dirs' = r.dirs
            /\ last' = [op |-> "load", key |-> key]
    /\ verdict' = NoVerdict
    /\ UNCHANGED <<fs, overrideDirs, prefSearchDirs, procs, git, recipeRepos, edits>>

\* verify_parent_trust on the recipe just loaded, same process and lists.
VerifyParentTrust ==
    /\ last.op = "load"
    /\ result.status = "ok"
    /\ result.recipe # NoRecipe
    /\ \E v \in {verify_parent_trust(result.recipe[1], overrideDirs, search_dirs)} :
          /\ verdict' = v
          /\ search_dirs' = v.dirs
    /\ last' = [last EXCEPT !.op = "verify"]
    /\ UNCHANGED <<fs, overrideDirs, prefSearchDirs, procs, git, recipeRepos, edits, result>>

\* update_trust_info for one recipe name (lines 1689-1737); answer is what
\* the user replies to "Add parent trust info anyway?".
UpdateTrustInfo ==
    /\ edits < MaxEdits
    /\ \E key \in Keys, answer \in {"y", "n"} :
         \E recipe_path \in {normalized(locate_recipe(key, overrideDirs, prefSearchDirs))} :
           /\ recipe_path # NoPath
           /\ fs[recipe_path].ParentRecipe # None
           /\ \/ fs[recipe_path].ParentRecipeTrustInfo # <<>>
              \/ recipe_in_override_dir(recipe_path, overrideDirs)
              \/ (~recipe_from_external_repo(recipe_path) /\ answer = "y")
           /\ \E pl \in {load_recipe(TextKey(fs[recipe_path].ParentRecipe), overrideDirs,
                                     prefSearchDirs, <<>>, <<>>, MaxDepth)} :
                /\ pl.status = "ok"
                /\ pl.recipe # NoRecipe
                /\ \E ti \in {get_trust_info(pl.recipe[1], pl.dirs)} :
                     /\ ti.status = "ok"
                     /\ fs[recipe_path].ParentRecipeTrustInfo # <<ti.info>>
                     /\ fs' = [fs EXCEPT ![recipe_path].ParentRecipeTrustInfo = <<ti.info>>]
    /\ edits' = edits + 1
    /\ UNCHANGED <<overrideDirs, prefSearchDirs, procs, git, recipeRepos>>
    /\ NewRun

\* A recipe file rewritten by hand: its identifier and the way it names its
\* parent (by file name, or not at all) change together.
RewriteRecipe ==
    \E p \in DOMAIN fs, parent \in {None, "B"} :
        WriteDoc(p, [fs[p] EXCEPT !.Identifier = IdB, !.ParentRecipe = parent])

\* Recipe resolution and inheritance merge.
Next ==
    \/ EditDescription \/ EditMinimumVersion \/ EditInput \/ EditProcess
    \/ EditTrust \/ EditIdentifier \/ EditParent
    \/ MoveFile \/ SetOverrideDirs
    \/ LoadRecipe

Spec == Init /\ [][Next]_vars

\* Trust verification.
NextTrust ==
    \/ EditProcess \/ EditTrust \/ EditIdentifier
    \/ MoveFile \/ SetOverrideDirs \/ GitChange \/ EditProcessor
    \/ RewriteRecipe \/ UpdateTrustInfo
    \/ LoadRecipe \/ VerifyParentTrust

SpecTrust == Init /\ [][NextTrust]_vars

----------------------------------------------------------------------------
(* Lookup: where a name and a parent reference resolve.                    *)

FindIdentifiers == {None, "C", IdB}
FindExts == {".recipe.yaml"}
\* The preprocessors and postprocessors of a run, as a pair.
StepChoices == {<< <<>>, <<>> >>, << <<"Pre1">>, <<>> >>, << <<"Pre1", "Pre2">>, <<"Post1">> >>}

\* An identifier that is also some file's name, or another file's identifier.
EditIdentifierFind ==
    \E p \in DOMAIN fs, v \in FindIdentifiers :
        WriteDoc(p, [fs[p] EXCEPT !.Identifier = v])

\* A recipe saved in another serialization: same name, other extension.
RenameExt ==
    /\ edits < MaxEdits
    /\ \E p \in DOMAIN fs, ext \in FindExts :
         LET q == FilePath(dirname(p), basename(p)[1], ext) IN
         /\ q \notin DOMAIN fs
         /\ fs' = [x \in (DOMAIN fs \ {p}) \cup {q} |-> IF x = q THEN fs[p] ELSE fs[x]]
    /\ edits' = edits + 1
    /\ UNCHANGED <<overrideDirs, prefSearchDirs, procs, git, recipeRepos>>
    /\ NewRun

\* One run: load_recipe with preprocessors and postprocessors, as run_recipes
\* calls it.
LoadRecipeSteps ==
    /\ last.op = "none"
    /\ \E key \in Keys, steps \in StepChoices :
         \E r \in {load_recipe(key, overrideDirs, prefSearchDirs, steps[1], steps[2], MaxDepth)} :
            /\ result' = r
            /\ search_dirs' = r.dirs
            /\ last' = [op |-> "load", key |-> key, steps |-> steps]
    /\ verdict' = NoVerdict
    /\ UNCHANGED <<fs, overrideDirs, prefSearchDirs, procs, git, recipeRepos, edits>>

NextFind ==
    \/ EditProcess \/ EditParent \/ EditIdentifierFind
    \/ MoveFile \/ RenameExt \/ SetOverrideDirs
    \/ LoadRecipeSteps

SpecFind == Init /\ [][NextFind]_vars

----------------------------------------------------------------------------
(* Remote search: locate_recipe with search_github, lines 268-322.  The    *)
(* files and the two preferences repo_add writes are threaded through the  *)
(* call as a record w = [fs, dirs, repos].                                 *)

IdD == "com.d"
IdE == "com.e"

\* name.split(".")[0]
FirstFragment(name) == IF name \in {IdA, IdB, IdC, IdD, IdE, IdX} THEN "com" ELSE name

\* A search result: the repository holding the file and the Identifier the
\* fetched file contents declare.
Item(repo, identifier) == [repository |-> repo, Identifier |-> identifier]

ResultLists ==
    { <<>>, <<Item("r2", IdD)>>, <<Item("r3", IdE)>>,
      <<Item("r2", IdD), Item("r2", IdD)>>, <<Item("r3", IdE), Item("r2", IdD)>> }

\* What the user and the network supply to one call; nobody is asked under
\* auto_pull and nothing is asked or fetched without search_github.
Answers(auto_pull) == IF auto_pull THEN {"y"} ELSE {"y", "n"}
RemoteInputs(search_github, auto_pull) ==
    IF ~search_github
    THEN {[search |-> "y", add |-> "y", results |-> <<>>, clone |-> "ok"]}
    ELSE [search : Answers(auto_pull), add : Answers(auto_pull),
          results : ResultLists, clone : {"ok", "GitError"}]

find_recipe_by_identifier_on(files, identifier, search_dirs_) ==
    FirstOrNoPath(SelectSeq(SearchOrder(search_dirs_),
        LAMBDA p : p \in DOMAIN files /\ valid_recipe_dict(files[p])
                   /\ get_identifier(files[p]) # None
                   /\ get_identifier(files[p]) = identifier))

find_recipe_by_name_on(files, name, search_dirs_) ==
    FirstOrNoPath(SelectSeq(SearchOrder(search_dirs_),
        LAMBDA p : p \in DOMAIN files /\ basename(p)[1] = name
                   /\ valid_recipe_dict(files[p])))

\* Lines 248-262 of locate_recipe on the files of w.
locate_recipe_on(files, name, override_dirs, recipe_dirs) ==
    IF name.path # NoPath /\ name.path \in DOMAIN files /\ valid_recipe_dict(files[name.path])
    THEN name.path
    ELSE IF name.path # NoPath THEN NoPath
    ELSE Bind(find_recipe_by_identifier_on(files, name.text, override_dirs \o recipe_dirs),
              LAMBDA byid : IF byid # NoPath THEN byid
                            ELSE find_recipe_by_name_on(files, name.text, override_dirs \o recipe_dirs))

\* The directory get_recipe_repo clones a repository into.
RemoteDir(repo) == << <<repo>> >>

\* The recipe each remote repository holds.
RemoteDoc(repo) ==
    [Identifier |-> IF repo = "r2" THEN IdD ELSE IdE, ParentRecipe |-> None,
     Description |-> "dD", MinimumVersion |-> <<>>, Input |-> NoInput,
     Process |-> << <<"URLDownloader">> >>, ParentRecipeTrustInfo |-> <<>>]

\* os.path.exists(dest_dir) and os.path.isdir(dest_dir/.git): a directory
\* exists when it holds a file, and is a working copy when git knows a file
\* in it.
dir_exists(files, dest_dir) ==
    \E p \in DOMAIN files \cup DOMAIN procs : Inside(p, dest_dir)
is_git_repo(dest_dir) ==
    \E p \in DOMAIN git : Inside(p, dest_dir) /\ git[p].toplevel

Got(dir, files, action) == [dir |-> dir, files |-> files, action |-> action]

\* get_recipe_repo: the destination directory, or None; files is the disk
\* afterwards and action the git command that was run.  clone says what the
\* machine does with git: "ok", "GitError", or "NoGitBinary".
get_recipe_repo_any_directory(files, repo, clone) ==
    IF clone = "ok"
    THEN Got(<<RemoteDir(repo)>>,
             (FilePath(RemoteDir(repo), "D", ".recipe") :> RemoteDoc(repo)) @@ files, "clone")
    ELSE Got(<<>>, files, "clone")
get_recipe_repo(files, repo, clone) ==
    IF clone = "NoGitBinary" THEN Got(<<>>, files, "none")
    ELSE IF dir_exists(files, RemoteDir(repo))
    THEN IF ~is_git_repo(RemoteDir(repo)) THEN Got(<<>>, files, "none")
         ELSE IF clone = "ok" THEN Got(<<RemoteDir(repo)>>, files, "pull")
         ELSE Got(<<>>, files, "pull")
    ELSE IF clone = "ok"
    THEN Got(<<RemoteDir(repo)>>,
             (FilePath(RemoteDir(repo), "D", ".recipe") :> RemoteDoc(repo)) @@ files, "clone")
    ELSE Got(<<>>, files, "clone")

\* repo_add for one repository name.  Both preferences are saved whether
\* or not the clone worked.
repo_add(w, repo, clone) ==
    Bind(get_recipe_repo(w.fs, repo, clone),
         LAMBDA got :
            IF got.dir = <<>> THEN w
            ELSE [fs |-> got.files,
                  dirs |-> IF \E i \in 1..Len(w.dirs) : w.dirs[i] = got.dir[1]
                           THEN w.dirs ELSE Append(w.dirs, got.dir[1]),
                  repos |-> w.repos \cup {got.dir[1]}])

\* The results fetched up to and including the first whose contents declare
\* the identifier.
RECURSIVE FetchedUntilMatch(_, _)
FetchedUntilMatch(results, identifier) ==
    IF results = <<>> THEN <<>>
    ELSE IF Head(results).Identifier = identifier THEN <<Head(results)>>
    ELSE <<Head(results)>> \o FetchedUntilMatch(Tail(results), identifier)

\* get_repository_from_identifier: one search, one fetch per result up to
\* the match; the repository of the match, or None.
get_repository_from_identifier(identifier, results) ==
    Bind(FetchedUntilMatch(results, identifier),
         LAMBDA fetched :
            [repo |-> IF FirstFragment(identifier) # "com" THEN None
                      ELSE IF fetched # <<>> /\ fetched[Len(fetched)].Identifier = identifier
                      THEN fetched[Len(fetched)].repository ELSE None,
             trace |-> <<"query">> \o (IF FirstFragment(identifier) # "com" THEN <<>>
                                        ELSE [i \in 1..Len(fetched) |-> "fetch"])])

UniqueRepoNamesFirstOnly(results) ==
    IF results = <<>> THEN <<>> ELSE <<results[1].repository>>

\* "make a list of unique repo names", in order of first appearance.
RECURSIVE UniqueRepoNames(_)
UniqueRepoNames(results) ==
    IF results = <<>> THEN <<>>
    ELSE Bind(UniqueRepoNames(SubSeq(results, 1, Len(results) - 1)),
              LAMBDA names :
                 IF \E i \in 1..Len(names) : names[i] = results[Len(results)].repository
                 THEN names ELSE Append(names, results[Len(results)].repository))

\* What one call of locate_recipe did: the file found, the disk and
\* preferences afterwards, and the prompts, queries, fetches, adds and
\* retries in the order they happened.
Out(file, w, trace, status) == [file |-> file, w |-> w, trace |-> trace, status |-> status]

\* Line 314: the retry is made with search_github=False.
RetrySearchGithubAgain == TRUE
RetrySearchGithub == FALSE

\* Lines 274-291: the candidate repositories.
RepoNames(name, results) ==
    Bind(IF FirstFragment(name) = "com" THEN get_repository_from_identifier(name, results)
         ELSE [repo |-> None, trace |-> <<>>],
         LAMBDA parent :
            IF parent.repo # None
            THEN [names |-> <<parent.repo>>, trace |-> parent.trace]
            ELSE [names |-> UniqueRepoNames(results), trace |-> parent.trace \o <<"query">>])

RECURSIVE locate_recipe_remote(_, _, _, _, _, _, _, _)
\* Lines 297-316: one candidate, so offer to add it and look again.
AddAndRetry(w, name, override_dirs, search_github, auto_pull, io, depth, repo) ==
    IF ~auto_pull /\ io.add # "y" THEN Out(NoPath, w, <<"prompt_add">>, "done")
    ELSE Bind(repo_add(w, repo, io.clone),
              LAMBDA w2 :
                 Bind(locate_recipe_remote(w2, name, override_dirs, w2.dirs,
                                           RetrySearchGithub, auto_pull, io, depth - 1),
                      LAMBDA again :
                         Out(again.file, again.w,
                             (IF auto_pull THEN <<>> ELSE <<"prompt_add">>)
                                 \o <<"add", "retry">> \o again.trace,
                             again.status)))

locate_recipe_remote(w, name, override_dirs, recipe_dirs, search_github, auto_pull, io, depth) ==
    IF depth = 0 THEN Out(NoPath, w, <<>>, "RecursionError")
    ELSE Bind(locate_recipe_on(w.fs, name, override_dirs, recipe_dirs),
         LAMBDA recipe_file :
            IF recipe_file # NoPath \/ ~search_github THEN Out(recipe_file, w, <<>>, "done")
            ELSE IF ~auto_pull /\ io.search # "y" THEN Out(NoPath, w, <<"prompt_search">>, "done")
            ELSE Bind(RepoNames(name.text, io.results),
                 LAMBDA found :
                    Bind((IF auto_pull THEN <<>> ELSE <<"prompt_search">>) \o found.trace,
                    LAMBDA trace :
                        IF Len(found.names) = 1
                        THEN Bind(AddAndRetry(w, name, override_dirs, search_github,
                                              auto_pull, io, depth, found.names[1]),
                                  LAMBDA r : Out(r.file, r.w, trace \o r.trace, r.status))
                        ELSE Out(NoPath, w, trace, "done"))))

RemoteKeys == {TextKey("D"), TextKey(IdD), TextKey("C")}

\* The inputs a call consumed, for the record of the run.
Consumed(trace, auto_pull, io) ==
    [results |-> IF \E i \in 1..Len(trace) : trace[i] = "query" THEN io.results ELSE <<>>,
     confirmed |-> auto_pull \/ ((\E i \in 1..Len(trace) : trace[i] = "prompt_add") /\ io.add = "y")]

\* One call of locate_recipe as load_recipe makes it for the recipe named
\* on the command line.
LocateRecipeRemote ==
    /\ last.op = "none"
    /\ \E key \in RemoteKeys, search_github \in BOOLEAN, auto_pull \in BOOLEAN :
       \E io \in RemoteInputs(search_github, auto_pull) :
         \E r \in {locate_recipe_remote([fs |-> fs, dirs |-> prefSearchDirs, repos |-> recipeRepos],
                                         key, overrideDirs, prefSearchDirs,
                                         search_github, auto_pull, io, MaxDepth)} :
            /\ fs' = r.w.fs
            /\ prefSearchDirs' = r.w.dirs
            /\ recipeRepos' = r.w.repos
            /\ git' = [p \in DOMAIN git \cup (DOMAIN r.w.fs \ DOMAIN fs) |->
                          IF p \in DOMAIN git THEN git[p] ELSE Committed("g1", ShaDoc(r.w.fs[p]))]
            /\ search_dirs' = r.w.dirs
            /\ last' = [op |-> "locate", key |-> key, search_github |-> search_github,
                        auto_pull |-> auto_pull, file |-> r.file, trace |-> r.trace,
                        status |-> r.status] @@ Consumed(r.trace, auto_pull, io)
    /\ result' = NoResult
    /\ verdict' = NoVerdict
    /\ UNCHANGED <<overrideDirs, procs, edits>>

NextRemote == SetOverrideDirs \/ LocateRecipeRemote

SpecRemote == Init /\ [][NextRemote]_vars

----------------------------------------------------------------------------
(* Processor lookup: processor files beside the recipes of a chain.        *)

ProcessorNames == {"PA", "PB"}

\* cp <dir>/<name>.py <other dir>/ between two runs.
CopyProcessor ==
    /\ edits < MaxEdits
    /\ \E p \in DOMAIN procs, d \in FileDirs :
         LET q == d \o <<p[Len(p)]>> IN
         /\ q \notin DOMAIN procs
         /\ procs' = [x \in DOMAIN procs \cup {q} |-> IF x = q THEN procs[p] ELSE procs[x]]
    /\ edits' = edits + 1
    /\ UNCHANGED <<fs, overrideDirs, prefSearchDirs, git, recipeRepos>>
    /\ NewRun

\* find_processor_path for a step of the recipe just loaded; the run's hash
\* seed decides which parent directory of the set is looked at first.
FindProcessorPath ==
    /\ last.op = "load"
    /\ result.status = "ok" /\ result.recipe # NoRecipe
    /\ \E processor_name \in ProcessorNames :
         \E path \in find_processor_paths(processor_name, result.recipe[1]) :
            last' = [op |-> "find", key |-> last.key,
                     processor |-> processor_name, path |-> path]
    /\ UNCHANGED <<fs, overrideDirs, prefSearchDirs, search_dirs, procs, git,
                   recipeRepos, edits, result, verdict>>

\* cp <dir>/<file> <other dir>/ between two runs; the copy is not under
\* version control.
CopyFile ==
    /\ edits < MaxEdits
    /\ \E p \in DOMAIN fs, d \in FileDirs :
         LET q == d \o <<basename(p)>> IN
         /\ q \notin DOMAIN fs
         /\ fs' = [x \in DOMAIN fs \cup {q} |-> IF x = q THEN fs[p] ELSE fs[x]]
    /\ edits' = edits + 1
    /\ UNCHANGED <<overrideDirs, prefSearchDirs, procs, git, recipeRepos>>
    /\ NewRun

NextProc ==
    \/ MoveFile \/ CopyFile \/ CopyProcessor
    \/ LoadRecipe \/ VerifyParentTrust \/ FindProcessorPath

SpecProc == Init /\ [][NextProc]_vars

----------------------------------------------------------------------------
(* Batch runs: run_recipes over a list of recipes with one search list.    *)

RECIPE_FAILED_CODE == 70

RunKeys == {TextKey("C"), TextKey(IdB), TextKey("Z")}
RecipeLists == {<<a, b>> : a \in RunKeys, b \in RunKeys}
RunOptions == [ignore_parent_trust_verification_errors : BOOLEAN, fail_recipes_without_trust_info : BOOLEAN]

\* What the loop did with one recipe: the list it was loaded with, the recipe
\* load_recipe returned, whether verify_parent_trust was called, whether the
\* steps were handed to the processing, and what was logged.
Entry(recipe_path, dirs, recipe, verified, processed, outcome) ==
    [recipe_path |-> recipe_path, search_dirs |-> dirs, recipe |-> recipe,
     verified |-> verified, processed |-> processed, outcome |-> outcome]

\* The state of a run: entries written, error_count, the search list, and
\* the exception that left the loop ("" when none did).
Run(done, error_count, dirs, exception) ==
    [done |-> done, error_count |-> error_count, dirs |-> dirs, exception |-> exception]

\* lines 2254-2257.
skip_trust_verification_without_flag(recipe, options) ==
    recipe.ParentRecipeTrustInfo = <<>> /\ ~options.fail_recipes_without_trust_info
skip_trust_verification(recipe, options) ==
    \/ options.ignore_parent_trust_verification_errors
    \/ (recipe.ParentRecipeTrustInfo = <<>> /\ ~options.fail_recipes_without_trust_info)

AutoPackagerErrors == {"TrustVerificationWarning", "TrustVerificationError"}

\* lines 2259-2276 for a loaded recipe: v is the verdict of verify_parent_trust
\* (outcome "skipped" when it was not called), process_ok whether the
\* processing of the steps raised no AutoPackagerError.
Attempt(run, recipe_path, recipe, v, process_ok) ==
    IF v.outcome \in AutoPackagerErrors
    THEN Run(Append(run.done, Entry(recipe_path, run.dirs, <<recipe>>, TRUE, FALSE,
                                    "Failed local trust verification.")),
             run.error_count + 1, v.dirs, "")
    ELSE IF v.outcome \notin {"ok", "skipped"}
    THEN Run(run.done, run.error_count, v.dirs, v.outcome)
    ELSE IF ~process_ok
    THEN Run(Append(run.done, Entry(recipe_path, run.dirs, <<recipe>>, v.outcome = "ok", TRUE,
                                    "Failed.")),
             run.error_count + 1, v.dirs, "")
    ELSE Run(Append(run.done, Entry(recipe_path, run.dirs, <<recipe>>, v.outcome = "ok", TRUE,
                                    "processed")),
             run.error_count, v.dirs, "")

\* lines 2185-2340: the loop over recipe_paths.  Every iteration passes the
\* same list object search_dirs to load_recipe and verify_parent_trust.
RECURSIVE RunLoop(_, _, _, _, _, _)
RunLoop(run, recipe_paths, override_dirs, options, steps, process_ok) ==
    IF recipe_paths = <<>> \/ run.exception # "" THEN run
    ELSE
      Bind(load_recipe(Head(recipe_paths), override_dirs, run.dirs, steps[1], steps[2], MaxDepth),
           LAMBDA r :
             RunLoop(IF r.status # "ok" THEN Run(run.done, run.error_count, r.dirs, r.status)
                     ELSE IF r.recipe = NoRecipe
                     THEN Run(Append(run.done, Entry(Head(recipe_paths), run.dirs, NoRecipe,
                                                     FALSE, FALSE, "No valid recipe found")),
                              run.error_count + 1, r.dirs, "")
                     ELSE Attempt([run EXCEPT !.dirs = r.dirs], Head(recipe_paths), r.recipe[1],
                                  IF skip_trust_verification(r.recipe[1], options)
                                  THEN Verdict("skipped", {}, <<>>, r.dirs)
                                  ELSE verify_parent_trust(r.recipe[1], override_dirs, r.dirs),
                                  Head(process_ok)),
                     Tail(recipe_paths), override_dirs, options, steps, Tail(process_ok)))

\* lines 2392-2393, and the interpreter's exit status after a traceback.
ExitCode(run) ==
    IF run.exception # "" THEN 1
    ELSE IF run.error_count > 0 THEN RECIPE_FAILED_CODE ELSE 0

\* autopkg run <recipe> <recipe> with the options of the command line.
RunRecipes ==
    /\ last.op = "none"
    /\ \E recipe_paths \in RecipeLists, options \in RunOptions, process_ok \in {<<TRUE, TRUE>>, <<FALSE, TRUE>>, <<TRUE, FALSE>>} :
         \E run \in {RunLoop(Run(<<>>, 0, prefSearchDirs, ""), recipe_paths, overrideDirs,
                              options, << <<>>, <<>> >>, process_ok)} :
            /\ last' = [op |-> "run", key |-> Head(recipe_paths), recipe_paths |-> recipe_paths,
                        options |-> options, done |-> run.done,
                        error_count |-> run.error_count, exception |-> run.exception,
                        code |-> ExitCode(run)]
            /\ search_dirs' = run.dirs
    /\ UNCHANGED <<fs, overrideDirs, prefSearchDirs, procs, git, recipeRepos, edits,
                   result, verdict>>

NextRun == EditParent \/ MoveFile \/ RunRecipes

SpecRun == Init /\ [][NextRun]_vars

----------------------------------------------------------------------------
(* Repository commands: repo-add and repo-delete on the two preferences.   *)

Repos == {"r1", "r2", "r3"}

RECURSIVE remove(_, _)
\* list.remove(x): the first occurrence goes.
remove(list, x) ==
    IF list = <<>> THEN <<>>
    ELSE IF Head(list) = x THEN Tail(list) ELSE <<Head(list)>> \o remove(Tail(list), x)

\* get_repo_info for the URL of a repository: its registered directory.
get_repo_info(repos, repo) ==
    IF RemoteDir(repo) \in repos THEN <<RemoteDir(repo)>> ELSE <<>>

\* repo_delete for one repository; rmtree is "ok" or "OSError".  The
\* directory leaves RECIPE_SEARCH_DIRS before the files are removed and
\* leaves RECIPE_REPOS only when they were.
repo_delete(w, repo, rmtree) ==
    Bind(get_repo_info(w.repos, repo), LAMBDA repo_path :
      IF repo_path = <<>> THEN w
      ELSE [fs |-> IF rmtree = "ok"
                   THEN [p \in {q \in DOMAIN w.fs : ~Inside(q, repo_path[1])} |-> w.fs[p]]
                   ELSE w.fs,
            dirs |-> IF \E i \in 1..Len(w.dirs) : w.dirs[i] = repo_path[1]
                     THEN remove(w.dirs, repo_path[1]) ELSE w.dirs,
            repos |-> IF rmtree = "ok" THEN w.repos \ {repo_path[1]} ELSE w.repos])

\* The preferences and the disk after a command, written back.
Written(w) ==
    /\ fs' = w.fs
    /\ prefSearchDirs' = w.dirs
    /\ recipeRepos' = w.repos
    /\ search_dirs' = w.dirs
    /\ result' = NoResult
    /\ verdict' = NoVerdict
    /\ edits' = edits + 1

\* autopkg repo-add <repo>.
RepoAdd ==
    /\ edits < MaxEdits
    /\ \E repo \in Repos, clone \in {"ok", "GitError", "NoGitBinary"} :
         \E got \in {get_recipe_repo(fs, repo, clone)} :
            /\ Written(repo_add([fs |-> fs, dirs |-> prefSearchDirs, repos |-> recipeRepos],
                                repo, clone))
            /\ git' = [p \in DOMAIN git \cup (DOMAIN got.files \ DOMAIN fs) |->
                          IF p \in DOMAIN git THEN git[p]
                          ELSE Committed("g1", ShaDoc(got.files[p]))]
            /\ last' = [op |-> "repo-add", key |-> TextKey(repo), clone |-> clone,
                        action |-> got.action, dir |-> got.dir]
    /\ UNCHANGED <<overrideDirs, procs>>

\* autopkg repo-delete <repo>.
RepoDelete ==
    /\ edits < MaxEdits
    /\ \E repo \in Repos, rmtree \in {"ok", "OSError"} :
         \E repo_path \in {get_repo_info(recipeRepos, repo)} :
            /\ Written(repo_delete([fs |-> fs, dirs |-> prefSearchDirs, repos |-> recipeRepos],
                                   repo, rmtree))
            /\ procs' = IF repo_path # <<>> /\ rmtree = "ok"
                        THEN [p \in {q \in DOMAIN procs : ~Inside(q, repo_path[1])} |-> procs[p]]
                        ELSE procs
            /\ git' = IF repo_path # <<>> /\ rmtree = "ok"
                      THEN [p \in {q \in DOMAIN git : ~Inside(q, repo_path[1])} |-> git[p]]
                      ELSE git
            /\ last' = [op |-> "repo-delete", key |-> TextKey(repo), rmtree |-> rmtree,
                        repo_path |-> repo_path]
    /\ UNCHANGED overrideDirs

\* mkdir <destination of repo>; cp a file into it: a directory that is not
\* a working copy.
MakePlainDir ==
    /\ edits < MaxEdits
    /\ \E repo \in Repos :
         /\ ~dir_exists(fs, RemoteDir(repo))
         /\ fs' = (FilePath(RemoteDir(repo), "D", ".recipe") :> RemoteDoc(repo)) @@ fs
    /\ edits' = edits + 1
    /\ UNCHANGED <<overrideDirs, prefSearchDirs, procs, git, recipeRepos>>
    /\ NewRun

NextRepo == RepoAdd \/ RepoDelete \/ MakePlainDir

SpecRepo == Init /\ [][NextRepo]_vars

----------------------------------------------------------------------------
(* What a run resolved, read back from the files.                          *)

Loaded == last.op # "none" /\ result.status = "ok" /\ result.recipe # NoRecipe
Merged == result.recipe[1]
Verified == last.op = "verify"

\* The files a load of name walks through, the located file first and the
\* topmost ancestor last; NoPath ends a chain whose next reference finds
\* no file or lies deeper than depth.
RECURSIVE ChainFrom(_, _, _, _)
ChainFrom(name, override_dirs, recipe_dirs, depth) ==
    Bind(locate_recipe(name, override_dirs, recipe_dirs), LAMBDA f :
      IF f = NoPath THEN <<NoPath>>
      ELSE IF fs[f].ParentRecipe = None THEN <<f>>
      ELSE IF depth = 0 THEN <<f, NoPath>>
      ELSE <<f>> \o ChainFrom(TextKey(fs[f].ParentRecipe), <<>>,
                              Append(recipe_dirs, dirname(f)), depth - 1))

Chain == ChainFrom(last.key, overrideDirs, prefSearchDirs, MaxDepth)
Member(i) == fs[Chain[i]]
Located == Member(1)

\* p lies beneath a registered repository directory.
UnderRepo(p) == \E repo \in recipeRepos : Inside(p, repo)

\* p lies in one of the override directories or beneath it.
InOverrideDir(p) ==
    \E i \in 1..Len(overrideDirs) : Inside(normalized(p), normalized(overrideDirs[i]))

\* The normalized path of p begins with the normalized path of an override
\* directory, as a string.
BeginsWithOverrideDir(p) ==
    \E i \in 1..Len(overrideDirs) :
        startswith(PathStr(normalized(p)), PathStr(normalized(overrideDirs[i])))

StepsOf(d) == IF d.Process = <<>> THEN <<>> ELSE d.Process[1]

RECURSIVE ChainProcess(_)
ChainProcess(chain) ==
    IF chain = <<>> THEN <<>>
    ELSE ChainProcess(Tail(chain)) \o StepsOf(fs[Head(chain)])

RECURSIVE NearestInput(_, _)
NearestInput(chain, k) ==
    IF k \in DOMAIN fs[Head(chain)].Input THEN fs[Head(chain)].Input[k]
    ELSE NearestInput(Tail(chain), k)

ChainInputKeys(chain) == UNION {DOMAIN fs[chain[i]].Input : i \in 1..Len(chain)}

ChainVersions(chain) ==
    {DefaultVersion(fs[chain[i]].MinimumVersion) : i \in 1..Len(chain)}

RECURSIVE NearestPresentDescription(_)
NearestPresentDescription(chain) ==
    IF chain = <<>> THEN Absent
    ELSE IF fs[Head(chain)].Description # Absent THEN fs[Head(chain)].Description
    ELSE NearestPresentDescription(Tail(chain))

RECURSIVE NearestNonEmptyDescription(_)
NearestNonEmptyDescription(chain) ==
    IF chain = <<>> THEN ""
    ELSE IF fs[Head(chain)].Description \notin {Absent, ""}
    THEN fs[Head(chain)].Description
    ELSE NearestNonEmptyDescription(Tail(chain))

----------------------------------------------------------------------------
(* Properties of the merge.                                                *)

\* C3: the merged Process is the chain's Process lists joined from the
\* topmost ancestor down to the located recipe, every step kept in order;
\* a member without Process adds nothing.
C3_ProcessIsChainConcatenation ==
    Loaded => Merged.Process = <<ChainProcess(Chain)>>

\* A chain of three whose members all have steps, the located recipe
\* repeating its grandparent's.
C3_Witness ==
    /\ Loaded
    /\ Len(Chain) = 3
    /\ \A i \in 1..3 : Member(i).Process # <<>>
    /\ Member(1).Process = Member(3).Process
    /\ Len(Merged.Process[1]) = 5

\* C4: every key of any member's Input is in the merged Input, with the
\* value of the member nearest to the located recipe that defines it.
C4_InputNearestWins ==
    Loaded =>
        LET chain == Chain
        IN Merged.Input = [k \in ChainInputKeys(chain) |-> NearestInput(chain, k)]

\* A chain of three where the parent overrides a key of the grandparent and
\* another key comes from the grandparent alone.
C4_Witness ==
    /\ Loaded
    /\ Len(Chain) = 3
    /\ \E k \in DOMAIN Member(2).Input \cap DOMAIN Member(3).Input :
          /\ k \notin DOMAIN Member(1).Input
          /\ Member(2).Input[k] # Member(3).Input[k]
          /\ Merged.Input[k] = Member(2).Input[k]
    /\ \E k \in DOMAIN Member(3).Input :
          /\ k \notin DOMAIN Member(1).Input \cup DOMAIN Member(2).Input
          /\ Merged.Input[k] = Member(3).Input[k]

\* C5: with at least one parent, the merged MinimumVersion is the greatest
\* of the members' versions by dotted-version comparison, a member without
\* the key counting as 0.
C5_MinimumVersionIsMaximum ==
    Loaded =>
        LET chain == Chain
            versions == ChainVersions(chain)
        IN Len(chain) >= 2 =>
             /\ Merged.MinimumVersion \in versions
             /\ \A v \in versions : version_equal_or_greater(Merged.MinimumVersion, v)

\* A parent at 1.0 under a located recipe at 2.3.
C5_Witness ==
    /\ Loaded
    /\ Len(Chain) >= 2
    /\ Located.MinimumVersion = <<2, 3>>
    /\ \E i \in 2..Len(Chain) : Member(i).MinimumVersion = <<1, 0>>
    /\ Merged.MinimumVersion = <<2, 3>>

\* C6: the merged Identifier is the identifier of the located recipe, never
\* an ancestor's.
C6_IdentifierOfLocated ==
    Loaded => Merged.Identifier = get_identifier(Located)

\* A chain of three whose members declare three different identifiers.
C6_Witness ==
    /\ Loaded
    /\ Len(Chain) = 3
    /\ Located.Identifier # None
    /\ \A i \in 2..3 : Member(i).Identifier \notin {None, Located.Identifier}
    /\ Merged.Identifier = Located.Identifier

\* C7 as stated: the merged Description is that of the nearest member whose
\* Description is not empty, so that a child with an empty Description takes
\* its parent's.
C7_DescriptionNearestNonEmpty ==
    Loaded =>
        LET chain == Chain
        IN Len(chain) >= 2 => Merged.Description = NearestNonEmptyDescription(chain)

\* C7: the merged Description is that of the nearest member that has the
\* key, empty or not; a chain with a parent where no member has it gets "".
C7_DescriptionNearestPresent ==
    Loaded =>
        LET chain == Chain
            nearest == NearestPresentDescription(chain)
        IN Merged.Description = IF Len(chain) >= 2 /\ nearest = Absent THEN "" ELSE nearest

\* A located recipe with an empty Description under an ancestor with text.
C7_Witness ==
    /\ Loaded
    /\ Len(Chain) >= 2
    /\ Located.Description = ""
    /\ \E i \in 2..Len(Chain) : Member(i).Description \notin {Absent, ""}
    /\ Merged.Description = ""

----------------------------------------------------------------------------
(* Properties of trust verification.                                       *)

Expected == Merged.ParentRecipeTrustInfo[1]
Actual == verdict.actual[1]

\* The two records differ in a set of names or in some sha256_hash.
HashesDiffer(e, a) ==
    \/ DOMAIN e.non_core_processors # DOMAIN a.non_core_processors
    \/ DOMAIN e.parent_recipes # DOMAIN a.parent_recipes
    \/ \E k \in DOMAIN e.non_core_processors \cap DOMAIN a.non_core_processors :
          e.non_core_processors[k].sha256_hash # a.non_core_processors[k].sha256_hash
    \/ \E k \in DOMAIN e.parent_recipes \cap DOMAIN a.parent_recipes :
          e.parent_recipes[k].sha256_hash # a.parent_recipes[k].sha256_hash

\* The verified recipe lies in an override directory, outside every repo,
\* embeds trust info, and the record of its parent chain was computed.
Compared ==
    /\ Verified
    /\ InOverrideDir(Merged.RECIPE_PATH)
    /\ ~UnderRepo(Merged.RECIPE_PATH)
    /\ Truthy(Merged.ParentRecipeTrustInfo)
    /\ verdict.actual # <<>>

\* The record verify_parent_trust would compute for the verified recipe.
ComputedTrust ==
    LET pl == load_recipe(TextKey(Merged.ParentRecipe), overrideDirs, prefSearchDirs,
                          <<>>, <<>>, MaxDepth)
    IN get_trust_info(pl.recipe[1], pl.dirs).info

\* C1 as stated: any difference between the computed and the expected
\* record, the path or git_hash of an entry included, raises
\* TrustVerificationError, and success means the records are equal.
C1_AnyDifferenceIsError ==
    Compared =>
        /\ Actual # Expected => verdict.outcome = "TrustVerificationError"
        /\ verdict.outcome = "ok" => Actual = Expected

\* C1: TrustVerificationError is raised exactly when the two records differ
\* in the set of processor names, the set of parent identifiers or the
\* sha256_hash of an entry; otherwise verification succeeds, also when a
\* path or a git_hash differs.
C1_ErrorIffHashesDiffer ==
    Compared =>
        /\ verdict.outcome = "TrustVerificationError" <=> HashesDiffer(Expected, Actual)
        /\ verdict.outcome = "ok" <=> ~HashesDiffer(Expected, Actual)

\* Verification succeeded on records that are not equal.
C1_Witness ==
    /\ Compared
    /\ Actual # Expected
    /\ ~HashesDiffer(Expected, Actual)
    /\ verdict.outcome = "ok"

\* C2 as stated: a recipe under a registered repo whose file embeds trust
\* info always verifies to TrustVerificationError.
C2_ExternalAlwaysError ==
    /\ Verified
    /\ UnderRepo(Merged.RECIPE_PATH)
    /\ fs[Merged.RECIPE_PATH].ParentRecipeTrustInfo # <<>>
    => verdict.outcome = "TrustVerificationError"

\* C2: a recipe under a registered repo whose file embeds trust info
\* verifies to TrustVerificationError when its path also begins with the
\* path of an override directory and the trust info has content, and to
\* TrustVerificationWarning otherwise; never to success.
C2_ExternalErrorInOverrideElseWarning ==
    /\ Verified
    /\ UnderRepo(Merged.RECIPE_PATH)
    /\ fs[Merged.RECIPE_PATH].ParentRecipeTrustInfo # <<>>
    => verdict.outcome =
         IF /\ BeginsWithOverrideDir(Merged.RECIPE_PATH)
            /\ Truthy(fs[Merged.RECIPE_PATH].ParentRecipeTrustInfo)
         THEN "TrustVerificationError" ELSE "TrustVerificationWarning"

\* A repo recipe in an override directory whose stored record equals the
\* computed one, refused all the same.
C2_Witness ==
    /\ Verified
    /\ UnderRepo(Merged.RECIPE_PATH)
    /\ InOverrideDir(Merged.RECIPE_PATH)
    /\ Truthy(Merged.ParentRecipeTrustInfo)
    /\ Merged.ParentRecipe # None
    /\ ComputedTrust = Expected
    /\ verdict.outcome = "TrustVerificationError"

----------------------------------------------------------------------------
(* Properties of the lookup.                                               *)

\* Some parent reference of the chain resolves to no file.
ParentUnresolved(chain) ==
    /\ Len(chain) >= 2
    /\ Len(chain) <= MaxDepth + 1
    /\ chain[Len(chain)] = NoPath

SearchDirSet == {normalized(prefSearchDirs[i]) : i \in 1..Len(prefSearchDirs)}

\* The directories of the chain members below the i-th parent.
DirsBelow(recipe, i) ==
    {dirname(recipe.RECIPE_PATH)} \cup {dirname(recipe.PARENT_RECIPES[j]) : j \in 1..(i - 1)}

LookupDirs == [i \in 1..(Len(overrideDirs) + Len(prefSearchDirs)) |-> normalized((overrideDirs \o prefSearchDirs)[i])]

IdentifierMatch(p, key) ==
    p \in DOMAIN fs /\ valid_recipe_file(p) /\ get_identifier(fs[p]) = key

NameMatch(p, key) ==
    p \in DOMAIN fs /\ valid_recipe_file(p) /\ basename(p)[1] = key

\* The positions in LookupDirs of the directories that hold a file
\* satisfying M for the key.
HoldingDirs(M(_, _), key) ==
    {i \in 1..Len(LookupDirs) : \E p \in DOMAIN fs : dirname(p) = LookupDirs[i] /\ M(p, key)}

AnyMatch(p, key) == IdentifierMatch(p, key) \/ NameMatch(p, key)

\* p is a match of kind M from the earliest directory that holds one.
FromEarliest(M(_, _), p, key) ==
    /\ M(p, key)
    /\ \E i \in HoldingDirs(M, key) :
          /\ dirname(p) = LookupDirs[i]
          /\ \A j \in HoldingDirs(M, key) : i <= j

ByText == last.op = "load" /\ last.key.path = NoPath /\ Loaded

Located_ == last.op = "locate"
Events(l, e) == {i \in 1..Len(l.trace) : l.trace[i] = e}
AddedIn(l) == Events(l, "add") # {}
QueriedIn(l) == Events(l, "query") # {}
Span(results) == {results[i].repository : i \in 1..Len(results)}

\* C14: one call of locate_recipe adds at most one repository and retries
\* at most once; after the retry starts there is no query, fetch, prompt or
\* add, and the call returns.
C14_OneAddOneRetryNoSearchInRetry ==
    Located_ =>
        /\ Cardinality(Events(last, "add")) <= 1
        /\ Cardinality(Events(last, "retry")) <= 1
        /\ \A i \in Events(last, "retry") : i = Len(last.trace)
        /\ last.status = "done"

\* A retry that found the recipe in the repository just added, and the
\* queries before it.
C14_Witness ==
    /\ Located_
    /\ Events(last, "retry") # {}
    /\ QueriedIn(last)
    /\ last.file # NoPath
    /\ last.file \in DOMAIN fs

\* The repositories the add is decided on: the one whose result declares
\* the identifier searched for, when the name begins with "com" and there
\* is one, otherwise those of all the results.
Candidates(l) ==
    LET hits == {i \in 1..Len(l.results) : l.results[i].Identifier = l.key.text}
    IN IF FirstFragment(l.key.text) = "com" /\ hits # {}
       THEN {l.results[CHOOSE i \in hits : \A j \in hits : i <= j].repository}
       ELSE Span(l.results)

\* A step that is one call of locate_recipe.
CallStep == last.op = "none" /\ last'.op = "locate"

PrefsUnchanged == prefSearchDirs' = prefSearchDirs /\ recipeRepos' = recipeRepos

\* C15 as stated: a repository is added only when the results span exactly
\* one source and the add was confirmed; with two or more sources, or
\* none, nothing is added, the preferences stay and nothing is found.
C15_AddOnlyWhenResultsSpanOneSource ==
    [][CallStep =>
        /\ AddedIn(last') => Cardinality(Span(last'.results)) = 1 /\ last'.confirmed
        /\ QueriedIn(last') /\ Cardinality(Span(last'.results)) # 1 =>
              ~AddedIn(last') /\ PrefsUnchanged /\ last'.file = NoPath]_vars

\* C15: a repository is added only when there is exactly one candidate
\* repository and the add was confirmed; with two or more candidates, or
\* none, nothing is added, the preferences stay and nothing is found.
C15_AddOnlyWhenOneCandidate ==
    [][CallStep =>
        /\ AddedIn(last') => Cardinality(Candidates(last')) = 1 /\ last'.confirmed
        /\ QueriedIn(last') /\ Cardinality(Candidates(last')) # 1 =>
              ~AddedIn(last') /\ PrefsUnchanged /\ last'.file = NoPath]_vars

\* Results from two sources of which one declares the identifier: that
\* repository is added.
C15_Witness ==
    /\ Located_
    /\ AddedIn(last)
    /\ Cardinality(Span(last.results)) = 2
    /\ Cardinality(Candidates(last)) = 1
    /\ RemoteDir("r2") \in recipeRepos

\* The recipe whose trust record the verification computed: the parent of
\* the verified override, merged with its own parents.
TrustSubject ==
    load_recipe(TextKey(Merged.ParentRecipe), overrideDirs, result.dirs,
                <<>>, <<>>, MaxDepth).recipe[1]

ChainFiles(recipe) == recipe.PARENT_RECIPES \o <<recipe.RECIPE_PATH>>

IdentifiersOf(files) == {fs[files[i]].Identifier : i \in 1..Len(files)}

NonCoreNames(recipe) ==
    {recipe.Process[1][i] : i \in 1..Len(recipe.Process[1])} \ {"URLDownloader", "EndOfCheckPhase"}

KeySetsMatch(subject) ==
    /\ DOMAIN Actual.parent_recipes = IdentifiersOf(ChainFiles(subject))
    /\ DOMAIN Actual.non_core_processors = NonCoreNames(subject)

\* C16 as stated: the parent_recipes keys are the identifiers of the chain
\* files, one entry per chain member, and the non_core_processors keys are
\* the non-core Processor names of the merged Process.
C16_OneEntryPerChainMember ==
    Compared =>
        LET subject == TrustSubject IN
        /\ KeySetsMatch(subject)
        /\ Cardinality(DOMAIN Actual.parent_recipes) = Len(ChainFiles(subject))

\* C16: the parent_recipes keys are exactly the identifiers of the chain
\* files, one entry per distinct identifier, and the non_core_processors
\* keys are exactly the non-core Processor names of the merged Process.
C16_KeySetsAreChainIdentifiersAndNonCoreNames ==
    Compared =>
        LET subject == TrustSubject IN
        /\ KeySetsMatch(subject)
        /\ Cardinality(DOMAIN Actual.parent_recipes) <= Len(ChainFiles(subject))

\* Two chain members declare the same identifier and share one entry; a
\* non-core processor is recorded and the core one is not.
C16_Witness ==
    /\ Compared
    /\ Len(ChainFiles(TrustSubject)) = 2
    /\ Cardinality(DOMAIN Actual.parent_recipes) = 1
    /\ DOMAIN Actual.non_core_processors # {}

\* All three git steps succeed for the file and the diff is empty.
GitClean(p) ==
    /\ GitOf(p).toplevel
    /\ GitOf(p).rev # GitError
    /\ GitOf(p).base = <<getsha256hash(p)>>

\* The entry is what get_trust_info makes of an existing file.
EntryOfFile(e, p) ==
    /\ e.path = os_path_compressuser(p)
    /\ e.sha256_hash = getsha256hash(p)
    /\ e.git_hash = IF GitClean(p) THEN GitOf(p).rev ELSE None

\* The last chain file that declares the identifier.
FileOfIdentifier(files, id) ==
    files[CHOOSE i \in 1..Len(files) :
            /\ fs[files[i]].Identifier = id
            /\ \A j \in 1..Len(files) : fs[files[j]].Identifier = id => j <= i]

NotFoundEntry ==
    [path |-> NoPath, sha256_hash |-> ShaErr("PROCESSOR FILEPATH NOT FOUND"), git_hash |-> None]

\* The verification got as far as computing the record of a parent chain
\* that loads.
RecordDue ==
    /\ Verified
    /\ InOverrideDir(Merged.RECIPE_PATH)
    /\ ~UnderRepo(Merged.RECIPE_PATH)
    /\ Truthy(Merged.ParentRecipeTrustInfo)
    /\ Merged.ParentRecipe # None
    /\ LET pl == load_recipe(TextKey(Merged.ParentRecipe), overrideDirs, result.dirs,
                             <<>>, <<>>, MaxDepth)
       IN pl.status = "ok" /\ pl.recipe # NoRecipe

\* C17: the record is always produced; an entry carries git_hash exactly
\* when the three git steps succeed and the diff is empty, and otherwise
\* has path and sha256_hash only; a processor that cannot be located gets
\* "PROCESSOR FILEPATH NOT FOUND", an empty path and no git_hash.
C17_GitHashOnlyWhenCleanAndNeverFails ==
    RecordDue =>
        /\ verdict.actual # <<>>
        /\ LET subject == TrustSubject IN
           /\ \A id \in DOMAIN Actual.parent_recipes :
                 EntryOfFile(Actual.parent_recipes[id],
                             FileOfIdentifier(ChainFiles(subject), id))
           /\ \A name \in DOMAIN Actual.non_core_processors :
                 LET dirs == {dirname(ChainFiles(subject)[i]) : i \in 1..Len(ChainFiles(subject))}
                     found == {d \in dirs : ProcPath(d, name) \in DOMAIN procs}
                 IN IF found = {} THEN Actual.non_core_processors[name] = NotFoundEntry
                    ELSE \E d \in found :
                           EntryOfFile(Actual.non_core_processors[name], ProcPath(d, name))

\* One processor cannot be located, another file was changed since its
\* commit, and the record is there all the same.
C17_Witness ==
    /\ RecordDue
    /\ verdict.actual # <<>>
    /\ \E name \in DOMAIN Actual.non_core_processors :
          Actual.non_core_processors[name] = NotFoundEntry
    /\ \E id \in DOMAIN Actual.parent_recipes :
          /\ Actual.parent_recipes[id].git_hash = None
          /\ GitOf(FileOfIdentifier(ChainFiles(TrustSubject), id)).toplevel

\* The error body has a line with this text about this name.
Reported(msgs, name) == \E m \in verdict.errors : m.msg \in msgs /\ m.name = name

ShaOf(entries, k) == IF k \in DOMAIN entries THEN entries[k].sha256_hash ELSE ShaErr(None)

\* Every difference between the two records has its line in the body.
EveryDifferenceReported(e, a) ==
    /\ \A p \in DOMAIN e.non_core_processors :
          ShaOf(a.non_core_processors, p) # e.non_core_processors[p].sha256_hash =>
             Reported({"Processor contents differ from expected",
                       "Expected processor can't be found"}, p)
    /\ \A p \in DOMAIN a.non_core_processors \ DOMAIN e.non_core_processors :
          Reported({"Unexpected processor found"}, p)
    /\ \A id \in DOMAIN e.parent_recipes :
          ShaOf(a.parent_recipes, id) # e.parent_recipes[id].sha256_hash =>
             Reported({"Parent recipe contents differ from expected",
                       "Expected parent recipe can't be found"}, id)
    /\ \A id \in DOMAIN a.parent_recipes \ DOMAIN e.parent_recipes :
          Reported({"Unexpected parent recipe found"}, id)

\* The body prints this list under this heading.
ListReported(msg, ids) ==
    \E m \in verdict.errors :
        /\ m.msg = msg
        /\ "list" \in DOMAIN m
        /\ {m.list[i] : i \in 1..Len(m.list)} = ids

\* C18 as stated: the one TrustVerificationError reports every difference,
\* and when the parent identifier sets differ its body states the expected
\* list and the actual list.
C18_EveryDifferenceAndBothLists ==
    Compared /\ verdict.outcome = "TrustVerificationError" =>
        /\ EveryDifferenceReported(Expected, Actual)
        /\ DOMAIN Expected.parent_recipes # DOMAIN Actual.parent_recipes =>
              /\ ListReported("Expected parent recipe list", DOMAIN Expected.parent_recipes)
              /\ ListReported("Actual parent recipe list", DOMAIN Actual.parent_recipes)

\* The part of C18 the program keeps: every difference has its line.
C18_EveryDifferenceReported ==
    Compared /\ verdict.outcome = "TrustVerificationError" =>
        EveryDifferenceReported(Expected, Actual)

\* Two differences at once, one of them in the parent identifier sets.
C18_Witness ==
    /\ Compared
    /\ verdict.outcome = "TrustVerificationError"
    /\ DOMAIN Expected.parent_recipes # DOMAIN Actual.parent_recipes
    /\ DOMAIN Expected.non_core_processors # DOMAIN Actual.non_core_processors
    /\ ListReported("Expected parent recipe list", DOMAIN Expected.parent_recipes)

\* Between the stored record e and the computed record a the content of
\* processor p alone has changed: its digest differs (and with it the
\* git_hash, the file no longer being as committed), every other entry is
\* as stored.
OnlyProcessorChanged(e, a, p) ==
    /\ DOMAIN e.non_core_processors = DOMAIN a.non_core_processors
    /\ e.parent_recipes = a.parent_recipes
    /\ p \in DOMAIN e.non_core_processors
    /\ e.non_core_processors[p].path = a.non_core_processors[p].path
    /\ e.non_core_processors[p].sha256_hash.proc # 0
    /\ a.non_core_processors[p].sha256_hash.proc # 0
    /\ e.non_core_processors[p].sha256_hash # a.non_core_processors[p].sha256_hash
    /\ \A q \in DOMAIN e.non_core_processors \ {p} :
          e.non_core_processors[q] = a.non_core_processors[q]

\* C19: when the content of exactly one non-core processor file changed
\* since the trust info was stored and nothing else did, verification
\* raises TrustVerificationError and its body names that processor only.
C19_OneChangedProcessorIsNamedAlone ==
    Compared =>
        \A p \in DOMAIN Expected.non_core_processors :
            OnlyProcessorChanged(Expected, Actual, p) =>
                /\ verdict.outcome = "TrustVerificationError"
                /\ verdict.errors = {Msg("Processor contents differ from expected", p)}

\* One of two recorded processors was changed on disk.
C19_Witness ==
    /\ Compared
    /\ Cardinality(DOMAIN Expected.non_core_processors) = 2
    /\ \E p \in DOMAIN Expected.non_core_processors :
          OnlyProcessorChanged(Expected, Actual, p)
    /\ verdict.outcome = "TrustVerificationError"

\* C20: a recipe without trust info, or with trust info but stored outside
\* every override directory, verifies to TrustVerificationWarning, never
\* to an error or to success, and no trust record is computed for it.
C20_WarningWithoutTrustOrOutsideOverrides ==
    Verified /\ ( \/ ~Truthy(Merged.ParentRecipeTrustInfo)
                  \/ ~InOverrideDir(Merged.RECIPE_PATH) ) =>
        /\ verdict.outcome = "TrustVerificationWarning"
        /\ verdict.actual = <<>>

\* A recipe with trust info in a sibling of the override directory, whose
\* verification went on to compare the records.
C20_Witness ==
    /\ Verified
    /\ Truthy(Merged.ParentRecipeTrustInfo)
    /\ ~InOverrideDir(Merged.RECIPE_PATH)
    /\ BeginsWithOverrideDir(Merged.RECIPE_PATH)
    /\ verdict.outcome # "TrustVerificationWarning"
    /\ verdict.actual # <<>>

----------------------------------------------------------------------------
(* Properties of the splice, the processor lookup and the path tests.      *)

Occurrences(seq, x) == Cardinality({i \in 1..Len(seq) : seq[i] = x})

\* C23: the returned Process is the preprocessors in the order given,
\* then the Process merged along the whole chain, then the postprocessors
\* in the order given; each supplied name occurs once.
C23_SpliceAroundMergedProcess ==
    last.op = "load" /\ Loaded =>
        /\ Merged.Process[1] = last.steps[1] \o ChainProcess(Chain) \o last.steps[2]
        /\ \A i \in 1..Len(last.steps[1]) :
              Occurrences(Merged.Process[1], last.steps[1][i]) = 1
        /\ \A i \in 1..Len(last.steps[2]) :
              Occurrences(Merged.Process[1], last.steps[2][i]) = 1

\* Two preprocessors and a postprocessor around a chain of three.
C23_Witness ==
    /\ last.op = "load"
    /\ Loaded
    /\ Len(Chain) = 3
    /\ Len(last.steps[1]) = 2
    /\ Len(last.steps[2]) = 1
    /\ Len(Merged.Process[1]) > 3

\* The directories of the ancestors that hold the processor file, in
\* PARENT_RECIPES order.
AncestorDirsHolding(processor_name) ==
    SelectSeq(Dirnames(Merged.PARENT_RECIPES),
              LAMBDA d : ProcPath(d, processor_name) \in DOMAIN procs)

OwnDirHolds(processor_name) ==
    ProcPath(dirname(Merged.RECIPE_PATH), processor_name) \in DOMAIN procs

\* C25: find_processor_path returns the file of the first directory in the
\* documented order: the recipe's own directory, then the ancestors'
\* directories in PARENT_RECIPES order, so of two ancestors' copies it is
\* always the nearer ancestor's.
C25_NearestAncestorCopyOnEveryRun ==
    last.op = "find" =>
        last.path = IF OwnDirHolds(last.processor)
                       THEN ProcPath(dirname(Merged.RECIPE_PATH), last.processor)
                    ELSE IF AncestorDirsHolding(last.processor) = <<>> THEN NoPath
                    ELSE ProcPath(AncestorDirsHolding(last.processor)[1], last.processor)

\* Two ancestors in different directories both hold the file, the recipe's
\* own directory does not, and a run returned one of the copies.
C25_Witness ==
    /\ last.op = "find"
    /\ ~OwnDirHolds(last.processor)
    /\ Len(AncestorDirsHolding(last.processor)) = 2
    /\ AncestorDirsHolding(last.processor)[1] # AncestorDirsHolding(last.processor)[2]
    /\ last.path = ProcPath(AncestorDirsHolding(last.processor)[1], last.processor)

\* A file of the world that names its own identifier as its parent.
SelfParent(p) == fs[p].ParentRecipe # None /\ fs[p].ParentRecipe = get_identifier(fs[p])

\* C26: load_recipe comes back with a merged recipe or with failure for
\* every set of recipe files, a recipe that names itself as parent included:
\* no load ends in the interpreter's recursion limit.
C26_LoadRecipeReturnsOnParentCycle ==
    last.op = "load" => result.status # "RecursionError"

\* A load that walked into a recipe naming itself as parent.
C26_Witness ==
    /\ last.op = "load"
    /\ \E p \in DOMAIN fs : SelfParent(p) /\ result.dirs[Len(result.dirs)] = dirname(p)
    /\ result.status = "RecursionError"
    /\ Len(result.dirs) > Len(prefSearchDirs) + MaxDepth

(* Properties of a batch run. *)

InRun == last.op = "run"
Failed(i) == last.done[i].outcome # "processed"

\* C21: in a batch run every recipe of the list is loaded and attempted in
\* list order whatever happened to the recipes before it, a recipe whose
\* load or trust verification failed has no step processed, and the run
\* returns 70 exactly when at least one recipe failed.
C21_EveryRecipeAttemptedAndCode70IffFailure ==
    InRun =>
        /\ Len(last.done) = Len(last.recipe_paths)
        /\ \A i \in 1..Len(last.done) :
              /\ last.done[i].recipe_path = last.recipe_paths[i]
              /\ last.done[i].outcome \in {"No valid recipe found", "Failed local trust verification."}
                    => ~last.done[i].processed
        /\ (last.code = RECIPE_FAILED_CODE <=> \E i \in 1..Len(last.done) : Failed(i))

\* The same for the runs that no exception left.
C21_AttemptedUnlessExceptionLeavesLoop ==
    InRun /\ last.exception = "" =>
        /\ Len(last.done) = Len(last.recipe_paths)
        /\ \A i \in 1..Len(last.done) :
              /\ last.done[i].recipe_path = last.recipe_paths[i]
              /\ last.done[i].outcome \in {"No valid recipe found", "Failed local trust verification."}
                    => ~last.done[i].processed
        /\ (last.code = RECIPE_FAILED_CODE <=> \E i \in 1..Len(last.done) : Failed(i))

\* The first recipe fails trust verification and the second is processed.
C21_Witness ==
    /\ InRun
    /\ Len(last.done) = 2
    /\ last.done[1].outcome = "Failed local trust verification."
    /\ last.done[2].outcome = "processed"
    /\ last.code = RECIPE_FAILED_CODE

\* The first recipe's load ends in an exception and the second is never loaded.
C21_RunEndedByException ==
    /\ InRun
    /\ last.exception = "RecursionError"
    /\ last.done = <<>>
    /\ last.code # RECIPE_FAILED_CODE

\* The entries of the run whose recipe was loaded.
LoadedEntries == {i \in 1..Len(last.done) : last.done[i].recipe # NoRecipe}
HasTrust(i) == last.done[i].recipe[1].ParentRecipeTrustInfo # <<>>
Ignore == last.options.ignore_parent_trust_verification_errors
FailWithoutTrust == last.options.fail_recipes_without_trust_info

Elements(seq) == {seq[i] : i \in 1..Len(seq)}

\* What recipe i of the batch resolves to when it is loaded alone, with the
\* search list as the preferences have it.
LoadedAlone(i) ==
    load_recipe(last.recipe_paths[i], overrideDirs, prefSearchDirs, <<>>, <<>>, MaxDepth)

\* C27: the search directory list a batch run passes to load_recipe has the
\* same elements after the run as before it and before every load, and each
\* recipe of the batch resolves as it does when it is loaded alone.
C27_SearchListUnchangedAndLoadsIndependent ==
    InRun =>
        /\ Elements(search_dirs) = Elements(prefSearchDirs)
        /\ \A i \in 1..Len(last.done) :
              /\ Elements(last.done[i].search_dirs) = Elements(prefSearchDirs)
              /\ last.done[i].recipe = LoadedAlone(i).recipe

\* The second recipe of a batch is loaded with a list the first load has
\* extended, and resolves although it does not resolve when loaded alone.
C27_Witness ==
    /\ InRun /\ Len(last.done) = 2
    /\ Elements(last.done[2].search_dirs) # Elements(prefSearchDirs)
    /\ LoadedAlone(2).status = "ok" /\ LoadedAlone(2).recipe = NoRecipe
    /\ last.done[2].recipe # NoRecipe

(* Properties of the path tests. *)

\* C30: recipe_in_override_dir is true of a file exactly when it lies in an
\* override directory or beneath one, and recipe_from_external_repo exactly
\* when it lies beneath a registered repository directory; a file in a
\* sibling directory whose name begins with the same characters is outside.
C30_PathTestsAreContainment ==
    \A p \in DOMAIN fs :
        /\ recipe_in_override_dir(p, overrideDirs) <=> InOverrideDir(p)
        /\ recipe_from_external_repo(p) <=> UnderRepo(p)

\* A recipe file in /home/ov-old while /home/ov is an override directory.
C30_Witness ==
    \E p \in DOMAIN fs :
        /\ dirname(p) = OvOldDir
        /\ ~InOverrideDir(p)
        /\ \E i \in 1..Len(overrideDirs) : normalized(overrideDirs[i]) = OvDir
        /\ recipe_in_override_dir(p, overrideDirs)

(* The chain that is verified and the chain that is run. *)

\* The paths verify_parent_trust fingerprinted as parent recipes.
FingerprintedPaths ==
    {verdict.actual[1].parent_recipes[k].path : k \in DOMAIN verdict.actual[1].parent_recipes}

\* The files load_recipe merged into the recipe, as trust records write paths.
MergedParentPaths ==
    {os_path_compressuser(Merged.PARENT_RECIPES[i]) : i \in 1..Len(Merged.PARENT_RECIPES)}

\* C28: whenever verify_parent_trust fingerprints a parent chain for a loaded
\* override, the files it fingerprints are the files of the recipe's
\* PARENT_RECIPES, the chain load_recipe merged.
C28_VerifiedChainIsMergedChain ==
    Verified /\ verdict.actual # <<>> => FingerprintedPaths = MergedParentPaths

\* Verification succeeds on a chain that is not the chain that was merged.
C28_Witness ==
    /\ Verified /\ verdict.actual # <<>>
    /\ verdict.outcome = "ok"
    /\ FingerprintedPaths # MergedParentPaths

(* Properties of the repository commands. *)

\* The git command the state of the destination directory calls for.
ActionDue(repo, clone) ==
    IF clone = "NoGitBinary" THEN "none"
    ELSE IF ~dir_exists(fs, RemoteDir(repo)) THEN "clone"
    ELSE IF is_git_repo(RemoteDir(repo)) THEN "pull" ELSE "none"

\* C24: a repo-add runs the one git command the destination directory calls
\* for (pull for a working copy, clone for an absent directory, none for a
\* directory that is no working copy or without a git binary), gets the
\* directory back exactly when that command was run and succeeded, and
\* registers the directory in RECIPE_REPOS and RECIPE_SEARCH_DIRS exactly
\* when it got it back.
C24_OneVcsActionByDestinationState ==
    [][last'.op = "repo-add" =>
          /\ last'.action = ActionDue(last'.key.text, last'.clone)
          /\ last'.dir # <<>> <=> (last'.action # "none" /\ last'.clone = "ok")
          /\ last'.dir = <<>> =>
                recipeRepos' = recipeRepos /\ prefSearchDirs' = prefSearchDirs
          /\ last'.dir # <<>> =>
                /\ last'.dir[1] = RemoteDir(last'.key.text)
                /\ recipeRepos' = recipeRepos \cup {last'.dir[1]}
                /\ Elements(prefSearchDirs') = Elements(prefSearchDirs) \cup {last'.dir[1]}]_vars

\* The destination exists and is no working copy: with a working git no
\* command is run, nothing is returned and nothing is registered.
C24_Witness ==
    /\ last.op = "repo-add" /\ last.clone = "ok"
    /\ last.action = "none" /\ last.dir = <<>>
    /\ dir_exists(fs, RemoteDir(last.key.text))
    /\ RemoteDir(last.key.text) \notin recipeRepos

\* C29: after any sequence of repo-add and repo-delete every directory in
\* RECIPE_REPOS is in RECIPE_SEARCH_DIRS, none of them is there twice, and a
\* repository whose removal failed is still registered in both.
C29_ReposRegisteredInBothPreferences ==
    /\ \A d \in recipeRepos : Occurrences(prefSearchDirs, d) = 1
    /\ last.op = "repo-delete" /\ last.rmtree = "OSError" /\ last.repo_path # <<>> =>
          /\ last.repo_path[1] \in recipeRepos
          /\ last.repo_path[1] \in Elements(prefSearchDirs)

\* A repo-delete whose removal of the files failed.
C29_Witness ==
    /\ last.op = "repo-delete" /\ last.rmtree = "OSError" /\ last.repo_path # <<>>
    /\ last.repo_path[1] \in recipeRepos
    /\ dir_exists(fs, last.repo_path[1])
    /\ last.repo_path[1] \notin Elements(prefSearchDirs)

====
